---- MODULE Spec2Model ----
(***************************************************************************)
(* A model of cinc, a cloud save-sync wrapper for games: the sync manager  *)
(* (src/src/sync.rs), the storage backend and its side-car metadata        *)
(* (src/src/backends/mod.rs), the download phase (src/src/platform.rs) and *)
(* the launch sequence of `run` (src/src/main.rs).                         *)
(*                                                                         *)
(* Two hosts share one backend.  Each host's launch is a sequence of steps *)
(* cut at the backend operations (the code's await points); local file     *)
(* system work done between two awaits belongs to the step of the await    *)
(* that follows it.  Local save files can be written or deleted at any     *)
(* time by the game or by another process.                                 *)
(***************************************************************************)
EXTENDS Integers, Sequences, FiniteSets, TLC

\* ------------------------------------------------------------------ bounds
MaxTime == 2
MaxLaunches == 3
MaxEdits == 1
\* how many of those edits may fall inside a sync phase of the host's own launch
MaxRaces == 1
\* how many launches may be under way on the shared backend at once
MaxConcurrent == 1
\* how many launches the hosts of the upload race make between them
MaxRaceLaunches == 3
\* the versions of the version checks: 0..MaxMajor . 0..MaxMinor . 0..MaxPatch
MaxMajor == 1
MaxMinor == 3
MaxPatch == 2
\* how many uploads the runs over every pair of versions hold
MaxVersionUploads == 2
\* how many launches the runs over every command-line flag hold
MaxArgLaunches == 2
\* how many keyring ids there are to draw a fresh one from
MaxSecrets == 2
\* how many parts (a placeholder, a delimiter or a piece of text) a template has
MaxParts == 4
\* how many components a path handed to the backend or joined to a root has
MaxComponents == 3
\* how many file entries a game's manifest has
MaxManifestFiles == 2
\* how many tokens the command line of a launch has
MaxCommand == 3
\* how many launch keys a game of the launch-path fallback has, and how many
\* games its manifests hold
MaxLaunchKeys == 2
MaxGames == 2

\* ------------------------------------------------------- the fixed universe
Hosts == {"A", "B"}
\* the save-tagged leaf templates of the game's manifest entry, in the order
\* the manifest map is iterated
ManifestFiles == <<"f1", "f2">>
Files == {ManifestFiles[i] : i \in DOMAIN ManifestFiles}
\* the version each host's client runs, <<major, minor, patch>>: host A is
\* one breaking release ahead of host B
ClientVersion(h) == IF h = "A" THEN <<0, 3, 0>> ELSE <<0, 2, 2>>

SYNC_TIME_FILE == "mod-meta.ron"
ARCHIVE_NAME == "archive.tar.xz"
BackendKeys == {SYNC_TIME_FILE, ARCHIVE_NAME}

NoFile == [ex |-> FALSE, c |-> 0, m |-> 0]
NoBytes == <<>>

\* ---------------------------------------------------------- sequence helpers
RECURSIVE SeqMax(_)
SeqMax(s) ==
    IF Len(s) = 1 THEN s[1]
    ELSE LET r == SeqMax(Tail(s)) IN IF s[1] >= r THEN s[1] ELSE r

\* index of the first element of s satisfying Test, 0 when there is none
SelectFirst(s, Test(_)) ==
    IF \E i \in DOMAIN s : Test(s[i])
    THEN CHOOSE i \in DOMAIN s : Test(s[i]) /\ \A j \in 1..(i - 1) : ~Test(s[j])
    ELSE 0

\* ------------------------------------------------------------------ versions
\* the read rule: same breaking cohort
\* the read rule asking for equal minor numbers under every major number
check_version_compat_read_minor(curr, prev) ==
    curr[1] = prev[1] /\ curr[2] = prev[2]

check_version_compat_read(curr, prev) ==
    curr[1] = prev[1] /\ (curr[1] # 0 \/ curr[2] = prev[2])

\* the write rule: curr is not an older breaking version than prev
check_version_compat_write(curr, prev) ==
    curr[1] >= prev[1] /\ (curr[1] # 0 \/ curr[2] >= prev[2])

\* self is the side-car, crate_ver the running version (curr_crate_ver())
is_version_read_compatabible(self, crate_ver) ==
    check_version_compat_read(self.last_write_cinc_version, crate_ver)

is_version_write_compatabible(self, crate_ver) ==
    check_version_compat_write(self.last_write_cinc_version, crate_ver)

\* ------------------------------------------------------------------- paths
\* A template of the model is a leaf name under one placeholder root; a
\* TemplateInfo is the value of that root: the host's own directory for the
\* local info, the stand-in name for the remote info.
LocalInfo(h) == h
RemoteInfo == "remote"
apply_substs(template, info) == <<info, template>>

\* ------------------------------------------------------------ local files
\* FS is a file system: [Hosts \X Files -> file state]
FsExists(FS, path) == FS[path].ex

\* from_manifest: one FileInfo per manifest file that exists locally
RECURSIVE FilesFrom(_, _, _)
FilesFrom(ts, h, FS) ==
    IF ts = <<>> THEN <<>>
    ELSE LET local == apply_substs(ts[1], LocalInfo(h))
             info == [local_path |-> local,
                      remote_path |-> apply_substs(ts[1], RemoteInfo),
                      template |-> ts[1]]
         IN  IF FsExists(FS, local) THEN <<info>> \o FilesFrom(Tail(ts), h, FS)
             ELSE FilesFrom(Tail(ts), h, FS)

from_manifest(h, FS) == FilesFrom(ManifestFiles, h, FS)

\* get_modified_times: the mtime of every listed file, or the first I/O error
RECURSIVE get_modified_times(_, _)
get_modified_times(files, FS) ==
    IF files = <<>> THEN [ok |-> TRUE, val |-> <<>>]
    ELSE IF ~FsExists(FS, files[1].local_path) THEN [ok |-> FALSE, val |-> <<>>]
    ELSE LET r == get_modified_times(Tail(files), FS)
         IN  IF r.ok THEN [ok |-> TRUE, val |-> <<FS[files[1].local_path].m>> \o r.val]
             ELSE r

\* Result<Option<time>>: tag is "Err", "None" or "Some"
get_latest_modified_time(files, FS) ==
    LET r == get_modified_times(files, FS)
    IN  IF ~r.ok THEN [tag |-> "Err", val |-> 0]
        ELSE IF r.val = <<>> THEN [tag |-> "None", val |-> 0]
        ELSE [tag |-> "Some", val |-> SeqMax(r.val)]

\* are_local_files_newer comparing with >= where the code has >
are_local_files_newer_or_equal(files, FS, cloud_time) ==
    LET newest == get_latest_modified_time(files, FS)
    IN  IF newest.tag = "Err" THEN [tag |-> "Err", local_time |-> 0, remote_time |-> 0]
        ELSE IF newest.tag = "Some" /\ newest.val >= cloud_time.last_write_timestamp
             THEN [tag |-> "Some", local_time |-> newest.val,
                   remote_time |-> cloud_time.last_write_timestamp]
        ELSE [tag |-> "None", local_time |-> 0, remote_time |-> 0]

\* Result<Option<SyncIssueInfo>>
are_local_files_newer(files, FS, cloud_time) ==
    LET newest == get_latest_modified_time(files, FS)
        none == [tag |-> "None", local_time |-> 0, remote_time |-> 0]
    IN  IF newest.tag = "Err" THEN [tag |-> "Err", local_time |-> 0, remote_time |-> 0]
        ELSE IF newest.tag = "Some" /\ newest.val > cloud_time.last_write_timestamp
             THEN [tag |-> "Some", local_time |-> newest.val,
                   remote_time |-> cloud_time.last_write_timestamp]
        ELSE none

\* localise_entries: each file-table template resolved against the local info
localise_entries(entries, info) ==
    [i \in DOMAIN entries |-> apply_substs(entries[i].template, info)]

\* the loop of rhaid_lawrlwytho comparing with <= where the code has <
RECURSIVE NeedsDownloadLoopOrEqual(_, _, _, _)
NeedsDownloadLoopOrEqual(paths, files, FS, oldest) ==
    IF paths = <<>> THEN "false"
    ELSE LET i == SelectFirst(files, LAMBDA f : f.local_path = paths[1])
         IN  IF i = 0 THEN "true"
             ELSE IF ~FsExists(FS, files[i].local_path) THEN "Err"
             ELSE IF FS[files[i].local_path].m <= oldest THEN "true"
             ELSE NeedsDownloadLoopOrEqual(Tail(paths), files, FS, oldest)

\* needs-download: "Err", "true" or "false"
RECURSIVE NeedsDownloadLoop(_, _, _, _)
NeedsDownloadLoop(paths, files, FS, oldest) ==
    IF paths = <<>> THEN "false"
    ELSE LET i == SelectFirst(files, LAMBDA f : f.local_path = paths[1])
         IN  IF i = 0 THEN "true"
             ELSE IF ~FsExists(FS, files[i].local_path) THEN "Err"
             ELSE IF FS[files[i].local_path].m < oldest THEN "true"
             ELSE NeedsDownloadLoop(Tail(paths), files, FS, oldest)

rhaid_lawrlwytho(h, files, FS, metadata) ==
    NeedsDownloadLoop(localise_entries(metadata.file_table.entries, LocalInfo(h)),
                      files, FS, metadata.file_table.oldest_modified_time)

\* the loop of build_file_table without the update of oldest_modified_time,
\* which stays at the current time
RECURSIVE BuildTableLoopKeepNow(_, _, _)
BuildTableLoopKeepNow(files, FS, acc) ==
    IF files = <<>> THEN acc
    ELSE IF ~FsExists(FS, files[1].local_path)
         THEN BuildTableLoopKeepNow(Tail(files), FS, acc)
    ELSE BuildTableLoopKeepNow(Tail(files), FS,
             [entries |-> Append(acc.entries,
                                 [template |-> files[1].template,
                                  remote_path |-> files[1].remote_path]),
              oldest_modified_time |-> acc.oldest_modified_time])

\* build_file_table: the listed files that still exist, and their oldest mtime
RECURSIVE BuildTableLoop(_, _, _)
BuildTableLoop(files, FS, acc) ==
    IF files = <<>> THEN acc
    ELSE IF ~FsExists(FS, files[1].local_path) THEN BuildTableLoop(Tail(files), FS, acc)
    ELSE LET mod_time == FS[files[1].local_path].m
             next == [entries |-> Append(acc.entries,
                                         [template |-> files[1].template,
                                          remote_path |-> files[1].remote_path]),
                      oldest_modified_time |->
                          IF mod_time < acc.oldest_modified_time THEN mod_time
                          ELSE acc.oldest_modified_time]
         IN  BuildTableLoop(Tail(files), FS, next)

build_file_table(files, FS, now) ==
    BuildTableLoop(files, FS, [entries |-> <<>>, oldest_modified_time |-> now])

\* from_sys_info stamping the side-car with the oldest file time, not with now
from_sys_info_oldest_time(file_table, now, hostname, crate_ver) ==
    [last_write_timestamp |-> file_table.oldest_modified_time,
     last_write_hostname |-> hostname,
     file_table |-> file_table,
     last_write_cinc_version |-> crate_ver]

\* from_sys_info stamping the side-car with the version a side-car without a
\* version field is read as (default_last_write_cinc_version)
from_sys_info_default_version(file_table, now, hostname, crate_ver) ==
    [last_write_timestamp |-> now,
     last_write_hostname |-> hostname,
     file_table |-> file_table,
     last_write_cinc_version |-> <<0, 2, 1>>]

from_sys_info(file_table, now, hostname, crate_ver) ==
    [last_write_timestamp |-> now,
     last_write_hostname |-> hostname,
     file_table |-> file_table,
     last_write_cinc_version |-> crate_ver]

\* tar_files: one member per listed file that still exists, named by its
\* remote path; a member carries the file's bytes and its mtime
RECURSIVE tar_files(_, _)
tar_files(files, FS) ==
    IF files = <<>> THEN <<>>
    ELSE IF FsExists(FS, files[1].local_path)
         THEN <<[name |-> files[1].remote_path,
                 c |-> FS[files[1].local_path].c,
                 m |-> FS[files[1].local_path].m]>> \o tar_files(Tail(files), FS)
         ELSE tar_files(Tail(files), FS)

XzEncode(bytes) == <<"xz", bytes>>
XzDecode(bytes) == bytes[2]
compress_files(files, FS) == XzEncode(tar_files(files, FS))
decompress_files(from) == XzDecode(from)

RonSer(metadata) == <<"ron", metadata>>
RonDe(bytes) == bytes[2]

\* untar_files with `continue` where the code bails: a member in no entry is
\* skipped
RECURSIVE untar_files_skip_unknown(_, _, _, _)
untar_files_skip_unknown(from, file_table, h, FS) ==
    IF from = <<>> THEN [ok |-> TRUE, fs |-> FS, n |-> 0]
    ELSE LET ent == from[1]
             i == SelectFirst(file_table.entries, LAMBDA f : f.remote_path = ent.name)
         IN  IF i = 0 THEN untar_files_skip_unknown(Tail(from), file_table, h, FS)
             ELSE LET local_path == apply_substs(file_table.entries[i].template, LocalInfo(h))
                      unpacked == [FS EXCEPT ![local_path] =
                                       [ex |-> TRUE, c |-> ent.c, m |-> ent.m]]
                      r == untar_files_skip_unknown(Tail(from), file_table, h, unpacked)
                  IN  [ok |-> r.ok, fs |-> r.fs, n |-> r.n + 1]

\* untar_files returning Ok from inside the loop: only the first member is
\* unpacked
untar_files_first_only(from, file_table, h, FS) ==
    IF from = <<>> THEN [ok |-> TRUE, fs |-> FS, n |-> 0]
    ELSE LET ent == from[1]
             i == SelectFirst(file_table.entries, LAMBDA f : f.remote_path = ent.name)
         IN  IF i = 0 THEN [ok |-> FALSE, fs |-> FS, n |-> 0]
             ELSE LET local_path == apply_substs(file_table.entries[i].template, LocalInfo(h))
                  IN  [ok |-> TRUE,
                       fs |-> [FS EXCEPT ![local_path] =
                                  [ex |-> TRUE, c |-> ent.c, m |-> ent.m]],
                       n |-> 1]

\* untar_files: unpack every member to the local path its file-table entry
\* resolves to; the first member that is in no entry fails the whole call,
\* with the members before it already unpacked
RECURSIVE untar_files(_, _, _, _)
untar_files(from, file_table, h, FS) ==
    IF from = <<>> THEN [ok |-> TRUE, fs |-> FS, n |-> 0]
    ELSE LET ent == from[1]
             i == SelectFirst(file_table.entries, LAMBDA f : f.remote_path = ent.name)
         IN  IF i = 0 THEN [ok |-> FALSE, fs |-> FS, n |-> 0]
             ELSE LET local_path == apply_substs(file_table.entries[i].template, LocalInfo(h))
                      unpacked == [FS EXCEPT ![local_path] =
                                       [ex |-> TRUE, c |-> ent.c, m |-> ent.m]]
                      r == untar_files(Tail(from), file_table, h, unpacked)
                  IN  [ok |-> r.ok, fs |-> r.fs, n |-> r.n + 1]

\* ---------------------------------------------------------------- the state
\* --------------------------------------------------------------- templates
\* A string is a sequence of tokens: the delimiters "<" and ">", the separator
\* "/", and runs of other characters taken whole ("root", "x", ...). An
\* Option is [some, val].
None == [some |-> FALSE, val |-> <<>>]
Some(v) == [some |-> TRUE, val |-> v]

Ok(out) == [tag |-> "Ok", err |-> "", out |-> out]
Err(e) == [tag |-> "Err", err |-> e, out |-> <<>>]
\* a slice whose start lies after its end
Panic == [tag |-> "Panic", err |-> "slice index", out |-> <<>>]

is_absolute(path) == path # <<>> /\ path[1] = "/"

\* Path::join: an absolute other replaces self
join(self, other) ==
    IF is_absolute(other) THEN other
    ELSE IF self = <<>> THEN other
    ELSE IF self[Len(self)] = "/" THEN self \o other
    ELSE self \o <<"/">> \o other

\* PathExt::join_good
join_good(self, other) ==
    IF ~is_absolute(other) THEN join(self, other)
    ELSE join(self, <<".">> \o other)

\* filename with Path::join alone
filename_plain_join(root, f) == join(root, f)

\* FilesystemStore::filename
filename(root, f) ==
    IF ~is_absolute(f) THEN join(root, f)
    ELSE join(root, <<".">> \o f)

\* do_repl resolving <base> from root and game even when base_dir is set
do_repl_root_first(var, info) ==
    IF var = <<"base">>
    THEN IF info.root.some /\ info.install_dir.some
         THEN Ok(join_good(info.root.val, info.install_dir.val))
         ELSE IF info.base_dir.some THEN Ok(info.base_dir.val)
         ELSE Err("VariableNotAvailable <root>")
    ELSE IF var = <<"root">>
    THEN IF info.root.some THEN Ok(info.root.val) ELSE Err("VariableNotAvailable <root>")
    ELSE IF var = <<"storeUserId">>
    THEN IF info.store_user_id.some THEN Ok(info.store_user_id.val)
         ELSE Err("VariableNotAvailable <storeUserId>")
    ELSE IF var = <<"game">>
    THEN IF info.install_dir.some THEN Ok(info.install_dir.val)
         ELSE Err("VariableNotAvailable <game>")
    ELSE Err("UnknownVariable")

\* TemplatePath::do_repl, for the variables that come from the TemplateInfo
\* alone
RECURSIVE do_repl(_, _)
do_repl(var, info) ==
    IF var = <<"base">>
    THEN IF info.base_dir.some THEN Ok(info.base_dir.val)
         ELSE LET root == do_repl(<<"root">>, info)
                  game == do_repl(<<"game">>, info)
              IN  IF root.tag # "Ok" THEN root
                  ELSE IF game.tag # "Ok" THEN game
                  ELSE Ok(join_good(root.out, game.out))
    ELSE IF var = <<"root">>
    THEN IF info.root.some THEN Ok(info.root.val) ELSE Err("VariableNotAvailable <root>")
    ELSE IF var = <<"storeUserId">>
    THEN IF info.store_user_id.some THEN Ok(info.store_user_id.val)
         ELSE Err("VariableNotAvailable <storeUserId>")
    ELSE IF var = <<"game">>
    THEN IF info.install_dir.some THEN Ok(info.install_dir.val)
         ELSE Err("VariableNotAvailable <game>")
    ELSE Err("UnknownVariable")

\* str::find from a byte offset: the offset of the first c at or after from,
\* or -1
find(str, c, from) ==
    LET at == {i \in from..(Len(str) - 1) : str[i + 1] = c}
    IN  IF at = {} THEN -1 ELSE CHOOSE i \in at : \A j \in at : i <= j

\* apply_substs, first loop: the substitutions <<start, end, repl>>; the
\* closing delimiter is looked for from where the last placeholder ended
RECURSIVE FindSubsts(_, _, _, _)
FindSubsts(str, info, end, substs) ==
    LET start == find(str, "<", end)
    IN  IF start = -1 THEN [tag |-> "Ok", err |-> "", out |-> substs]
        ELSE LET close == find(str, ">", end)
             IN  IF close = -1 THEN Err("NoClosingDelim")
                 ELSE IF start + 1 > close THEN Panic
                 ELSE LET repl == do_repl(SubSeq(str, start + 2, close), info)
                      IN  IF repl.tag # "Ok" THEN repl
                          ELSE FindSubsts(str, info, close + 1,
                                          Append(substs, <<start, close, repl.out>>))

\* apply_substs, second loop: rebuild the string
RECURSIVE Rebuild(_, _, _, _)
Rebuild(str, substs, prev, out) ==
    IF substs = <<>> THEN out \o SubSeq(str, prev + 1, Len(str))
    ELSE Rebuild(str, Tail(substs), substs[1][2] + 1,
                 out \o SubSeq(str, prev + 1, substs[1][1]) \o substs[1][3])

\* TemplatePath::apply_substs
TemplatePath_apply_substs(self, info) ==
    LET found == FindSubsts(self, info, 0, <<>>)
    IN  IF found.tag # "Ok" THEN found
        ELSE Ok(Rebuild(self, found.out, 0, <<>>))

\* the templates: up to MaxParts parts, each a placeholder, a lone delimiter or
\* a piece of text
TemplateParts ==
    {<<"x">>, <<">">>, <<"<">>, <<"<", "root", ">">>, <<"<", "base", ">">>,
     <<"<", "game", ">">>, <<"<", "storeUserId", ">">>, <<"<", "nope", ">">>}
RECURSIVE Flatten(_)
Flatten(parts) == IF parts = <<>> THEN <<>> ELSE parts[1] \o Flatten(Tail(parts))
Templates ==
    {Flatten(parts) : parts \in UNION {[1..n -> TemplateParts] : n \in 0..MaxParts}}

\* the TemplateInfos: every field unset or set; a store user id may hold a
\* delimiter
TemplateInfos ==
    [base_dir : {None, Some(<<"B">>)},
     root : {None, Some(<<"R">>)},
     store_user_id : {None, Some(<<"U">>), Some(<<"<", "U">>)},
     install_dir : {None, Some(<<"G">>)}]

\* ------------------------------------------------------ the configuration
\* Config, BackendInfo, BackendTy and Secret
BackendNames == {"local-store", "dav"}
BackendTypes == {"Filesystem", "WebDav"}
SecretIds == 1..MaxSecrets
NoSecret == [kind |-> "None", id |-> 0]

\* Config::default
DefaultConfig ==
    [backends |-> <<[name |-> "local-store", ty |-> "Filesystem", psk |-> NoSecret]>>,
     default_backend |-> "local-store"]

\* toml::to_string_pretty and toml::from_str
TomlSer(cfg) == <<"toml", cfg>>
TomlDe(str) == str[2]

NoCfgFile == [ex |-> FALSE, bytes |-> <<>>]
CfgFileOf(cfg) == [ex |-> TRUE, bytes |-> TomlSer(cfg)]

\* Config::used_keyring_ids
used_keyring_ids(cfg) ==
    {cfg.backends[i].psk.id : i \in {j \in DOMAIN cfg.backends :
                                        /\ cfg.backends[j].ty = "WebDav"
                                        /\ cfg.backends[j].psk.kind = "SystemSecret"}}

HasBackend(cfg, name) == \E i \in DOMAIN cfg.backends : cfg.backends[i].name = name
RemoveAt(seq, i) == [j \in 1..(Len(seq) - 1) |-> IF j < i THEN seq[j] ELSE seq[j + 1]]

\* read_config: the configuration run works with, the file it leaves and the
\* writes it made; a missing file is created with the default configuration
read_config(file) ==
    IF ~file.ex
    THEN [cfg |-> DefaultConfig, file |-> CfgFileOf(DefaultConfig),
          writes |-> <<"write_default_config">>]
    ELSE [cfg |-> TomlDe(file.bytes), file |-> file, writes |-> <<>>]

\* write_cfg: the file it leaves, the writes it made and whether it returned
\* Ok; io_ok says whether fs::write succeeds
write_cfg(cfg, file, dry_run, io_ok) ==
    IF dry_run THEN [file |-> file, writes |-> <<>>, ok |-> TRUE]
    ELSE IF ~io_ok THEN [file |-> file, writes |-> <<>>, ok |-> FALSE]
    ELSE [file |-> CfgFileOf(cfg), writes |-> <<"write_cfg">>, ok |-> TRUE]

\* SecretsApi::garbage_collect: the items left and whether it returned Ok; the
\* loop deletes the unused items one by one, done are those deleted before
\* it ended, all of them unless a call to the secrets service failed
garbage_collect(items, used_ids, done, io_ok) ==
    [items |-> items \ done, ok |-> io_ok]

\* the last invocation: its operation, its --dry-run flag, the writes it made
\* to the config file and the keyring, in order, and how it ended
NoInv == [op |-> "none", dry_run |-> FALSE, writes |-> <<>>, result |-> "none"]

VARIABLES
    clock,      \* the wall clock
    fs,         \* local save files: [Hosts \X Files -> [ex, c, m]]
    remote,     \* the backend's objects: [BackendKeys -> [ex, bytes]]
    ver,        \* the version each host's client runs
    pc,         \* where each host's launch stands
    sess,       \* the locals of each host's launch
    log,        \* what each host's current launch has done so far, in order
    result,     \* how each host's launch ended
    nLaunch, nEdit, nRace, nUp,
    gMeta,      \* history of the side-car now on the backend
    gArc,       \* history of the archive now on the backend
    base,       \* per host: the upload its files were last identical to
    edited,     \* per host: the files that differ from that upload
    cfg_file,   \* the local config file: [ex, bytes]
    keyring,    \* the ids stored in the system keyring
    inv,        \* the last invocation that was not a launch
    input,      \* the arguments of a call to one of the pure functions
    ret         \* what the call returned, once made

syncvars == <<clock, fs, remote, ver, pc, sess, log, result, nLaunch, nEdit, nRace, nUp,
              gMeta, gArc, base, edited>>
cfgvars == <<cfg_file, keyring, inv>>
callvars == <<input, ret>>
vars == <<syncvars, cfgvars, callvars>>

NoInput == [fn |-> "none"]
NoRet == [tag |-> "none"]
\* no call to a pure function is looked at
CallIdle == input = NoInput /\ ret = NoRet

\* launches and version checks run with the default configuration in place
ConfigIdle == cfg_file = CfgFileOf(DefaultConfig) /\ keyring = {} /\ inv = NoInv

NoMeta == from_sys_info([entries |-> <<>>, oldest_modified_time |-> 0], 0, "", <<0, 0, 0>>)


NoVersion == <<0, 0, 0>>
NoIssue == [tag |-> "None", local_time |-> 0, remote_time |-> 0]

\* dry_run, no_upload and no_download are the launch's command-line flags;
\* files, has_meta, meta, issue, force_overwrite, choice and exit_status are
\* its locals; the rest records what the launch has seen: dirty, whether a local
\* file changed under the sync phase; base0 and edited0, base and edited at
\* the launch; metaUp and arcUp, the uploads whose side-car and archive it
\* read; upId, its own upload; upHasPrev and upPrev, the side-car its upload
\* replaced
NoSess ==
    [dry_run |-> FALSE, no_upload |-> FALSE, no_download |-> FALSE,
     files |-> <<>>, exit_status |-> 0,
     has_meta |-> FALSE, meta |-> NoMeta, issue |-> NoIssue,
     force_overwrite |-> FALSE, choice |-> "none", dirty |-> FALSE,
     base0 |-> 0, edited0 |-> {}, metaUp |-> 0, arcUp |-> 0, upId |-> 0,
     upHasPrev |-> FALSE, upPrev |-> NoVersion]

\* the save files a host starts with: host A has every manifest file, host B
\* is a fresh machine
InitialFiles(h, has) ==
    IF has THEN [ex |-> TRUE, c |-> IF h = "A" THEN 1 ELSE 2, m |-> 0] ELSE NoFile

Init ==
    /\ clock = 0
    /\ fs = [p \in Hosts \X Files |-> InitialFiles(p[1], p[1] = "A")]
    /\ remote = [k \in BackendKeys |-> [ex |-> FALSE, bytes |-> NoBytes]]
    /\ ver = [h \in Hosts |-> ClientVersion(h)]
    /\ pc = [h \in Hosts |-> "idle"]
    /\ sess = [h \in Hosts |-> NoSess]
    /\ log = [h \in Hosts |-> <<>>]
    /\ result = [h \in Hosts |-> "none"]
    /\ nLaunch = 0 /\ nEdit = 0 /\ nRace = 0 /\ nUp = 0
    /\ gMeta = [up |-> 0, host |-> "", base |-> 0, changed |-> {}]
    /\ gArc = [up |-> 0, host |-> "", snap |-> [f \in Files |-> NoFile], clean |-> FALSE,
               over |-> NoVersion]
    /\ base = [h \in Hosts |-> 0]
    /\ edited = [h \in Hosts |-> {}]
    /\ ConfigIdle
    /\ CallIdle

\* ------------------------------------------------------------ the backend
\* FilesystemStore / WebDavStore behind StorageBackend
backend_exists(at) == remote[at].ex
backend_read_file(at) == remote[at].bytes
backend_write_file(at, bytes) == [remote EXCEPT ![at] = [ex |-> TRUE, bytes |-> bytes]]

\* the launch of h ends with result r
Finish(h, r) ==
    /\ pc' = [pc EXCEPT ![h] = "done"]
    /\ result' = [result EXCEPT ![h] = r]
    /\ sess' = [sess EXCEPT ![h] = NoSess]

\* the clock may have advanced by the time an action reads it
Now(dt) == clock + dt
Advance(dt) == Now(dt) <= MaxTime /\ clock' = Now(dt)

Active == {g \in Hosts : pc[g] \notin {"idle", "done"}}

Logged(h, evs) == log' = [log EXCEPT ![h] = log[h] \o evs]

\* the files of h that differ from the members of tar (a decoded archive)
DiffFromTar(h, FS, tar) ==
    {f \in Files :
        LET name == apply_substs(f, RemoteInfo)
            i == SelectFirst(tar, LAMBDA e : e.name = name)
        IN  IF i = 0 THEN FS[<<h, f>>].ex
            ELSE ~(FS[<<h, f>>].ex /\ FS[<<h, f>>].c = tar[i].c)}

\* ------------------------------------------------------------ the launch
\* the flags of a launch: CliArgs::dry_run (--dry-run), LaunchArgs::no_upload
\* (--debug-no-upload) and LaunchArgs::no_download (--upload-only)
LaunchFlags == [dry_run : BOOLEAN, no_upload : BOOLEAN, no_download : BOOLEAN]
PlainFlags(dry_run) == [dry_run |-> dry_run, no_upload |-> FALSE, no_download |-> FALSE]

\* run, Operation::Launch: build the sync manager unless --dry-run; neither
\* no_download nor any dialog about it is looked at
LaunchBody(h, args, info_ok) ==
    /\ UNCHANGED <<cfgvars, callvars>>
    /\ pc[h] \in {"idle", "done"}
    /\ nLaunch' = nLaunch + 1
    /\ log' = [log EXCEPT ![h] = <<>>]
    /\ IF ~args.dry_run /\ ~info_ok THEN Finish(h, "err_info")
       ELSE /\ sess' = [sess EXCEPT ![h] =
                           [NoSess EXCEPT !.dry_run = args.dry_run,
                                          !.no_upload = args.no_upload,
                                          !.no_download = args.no_download,
                                          !.files = IF args.dry_run THEN <<>>
                                                    ELSE from_manifest(h, fs),
                                          !.base0 = base[h],
                                          !.edited0 = edited[h]]]
            /\ pc' = [pc EXCEPT ![h] = IF args.dry_run THEN "spawn" ELSE "read_sync_time"]
            /\ result' = [result EXCEPT ![h] = "none"]
    /\ UNCHANGED <<clock, fs, remote, ver, nEdit, nRace, nUp, gMeta, gArc, base, edited>>

\* a launch while fewer than MaxConcurrent launches are under way
LaunchStep(h, args, info_ok) ==
    Cardinality(Active) < MaxConcurrent /\ LaunchBody(h, args, info_ok)

\* a launch with at most --dry-run
Launch(h, dry_run, info_ok) ==
    nLaunch < MaxLaunches /\ LaunchStep(h, PlainFlags(dry_run), info_ok)

\* a launch with any flags
LaunchArgs(h, args, info_ok) ==
    nLaunch < MaxArgLaunches /\ LaunchStep(h, args, info_ok)

\* cloud_sync_down, first half: read the side-car, then look for a conflict
ReadSyncTime(h, io_ok) ==
    /\ UNCHANGED <<cfgvars, callvars>>
    /\ pc[h] = "read_sync_time"
    /\ Logged(h, <<"read_sync_time">>)
    /\ IF ~io_ok THEN Finish(h, "err_io")
       ELSE IF ~backend_exists(SYNC_TIME_FILE)
       THEN /\ pc' = [pc EXCEPT ![h] = "spawn"]
            /\ UNCHANGED <<sess, result>>
       ELSE LET metadata == RonDe(backend_read_file(SYNC_TIME_FILE))
                issue == are_local_files_newer(sess[h].files, fs, metadata)
            IN  IF issue.tag = "Err" THEN Finish(h, "err_local_io")
                ELSE /\ sess' = [sess EXCEPT ![h].has_meta = TRUE, ![h].meta = metadata,
                                             ![h].issue = issue,
                                             ![h].metaUp = gMeta.up]
                     /\ pc' = [pc EXCEPT ![h] =
                                  IF issue.tag = "Some" THEN "confirm" ELSE "download"]
                     /\ UNCHANGED result
    /\ UNCHANGED <<clock, fs, remote, ver, nLaunch, nEdit, nRace, nUp, gMeta, gArc, base, edited>>

\* spawn_sync_confirm and the match on its answer; a closed dialog is Exit,
\* and on Exit run returns Ok(())
SyncChoices == {"Download", "Continue", "Exit"}
\* spawn_sync_confirm with unwrap_or(SyncChoices::Continue)
spawn_sync_confirm_or_continue(r) == IF r = "Closed" THEN "Continue" ELSE r

spawn_sync_confirm(r) == IF r = "Closed" THEN "Exit" ELSE r

ConfirmDialog(h, r) ==
    /\ UNCHANGED <<cfgvars, callvars>>
    /\ pc[h] = "confirm"
    /\ Logged(h, <<"confirm_" \o r>>)
    /\ IF r = "Error" THEN Finish(h, "err_dialog")
       ELSE LET choice == spawn_sync_confirm(r)
            IN  IF choice = "Exit" THEN Finish(h, "ok")
                ELSE /\ sess' = [sess EXCEPT ![h].choice = choice,
                                             ![h].force_overwrite = (choice = "Download")]
                     /\ pc' = [pc EXCEPT ![h] =
                                  IF choice = "Download" THEN "download" ELSE "spawn"]
                     /\ UNCHANGED result
    /\ UNCHANGED <<clock, fs, remote, ver, nLaunch, nEdit, nRace, nUp, gMeta, gArc, base, edited>>

\* Download with backend.exists(ap).await.unwrap_or(false): a failed existence
\* check is taken for an absent archive
DownloadExistsOrAbsent(h, io_ok) ==
    /\ UNCHANGED <<cfgvars, callvars>>
    /\ pc[h] = "download"
    /\ LET need == rhaid_lawrlwytho(h, sess[h].files, fs, sess[h].meta)
       IN  IF need = "Err" THEN Finish(h, "err_local_io") /\ UNCHANGED log
           ELSE IF need = "false"
           THEN pc' = [pc EXCEPT ![h] = "spawn"] /\ UNCHANGED <<log, result, sess>>
           ELSE /\ Logged(h, <<"exists_archive">>)
                /\ pc' = [pc EXCEPT ![h] =
                             IF io_ok /\ backend_exists(ARCHIVE_NAME) THEN "read_archive"
                             ELSE "spawn"]
                /\ UNCHANGED <<result, sess>>
    /\ UNCHANGED <<clock, fs, remote, ver, nLaunch, nEdit, nRace, nUp, gMeta, gArc,
                   base, edited>>

\* SyncMgr::download up to the archive's existence check
Download(h, io_ok) ==
    /\ UNCHANGED <<cfgvars, callvars>>
    /\ pc[h] = "download"
    /\ LET need == rhaid_lawrlwytho(h, sess[h].files, fs, sess[h].meta)
       IN  IF need = "Err" THEN Finish(h, "err_local_io") /\ UNCHANGED log
           ELSE IF need = "false"
           THEN pc' = [pc EXCEPT ![h] = "spawn"] /\ UNCHANGED <<log, result, sess>>
           ELSE /\ Logged(h, <<"exists_archive">>)
                /\ IF ~io_ok THEN Finish(h, "err_io")
                   ELSE /\ pc' = [pc EXCEPT ![h] =
                                     IF backend_exists(ARCHIVE_NAME) THEN "read_archive"
                                     ELSE "spawn"]
                        /\ UNCHANGED <<result, sess>>
    /\ UNCHANGED <<clock, fs, remote, ver, nLaunch, nEdit, nRace, nUp, gMeta, gArc,
                   base, edited>>

\* SyncMgr::download from the archive read on: decompress and unpack
ReadArchive(h, io_ok) ==
    /\ UNCHANGED <<cfgvars, callvars>>
    /\ pc[h] = "read_archive"
    /\ IF ~io_ok
       THEN /\ Logged(h, <<"read_archive">>)
            /\ Finish(h, "err_io")
            /\ UNCHANGED <<fs, base, edited>>
       ELSE LET archive == backend_read_file(ARCHIVE_NAME)
                uncomp == decompress_files(archive)
                r == untar_files(uncomp, sess[h].meta.file_table, h, fs)
            IN  /\ Logged(h, IF r.n > 0 THEN <<"read_archive", "unpack">>
                             ELSE <<"read_archive">>)
                /\ fs' = r.fs
                /\ IF r.ok
                   THEN /\ pc' = [pc EXCEPT ![h] = "spawn"]
                        /\ sess' = [sess EXCEPT ![h].arcUp = gArc.up]
                        /\ base' = [base EXCEPT ![h] = gArc.up]
                        /\ edited' = [edited EXCEPT ![h] = DiffFromTar(h, r.fs, uncomp)]
                        /\ UNCHANGED result
                   ELSE /\ Finish(h, "err_membership")
                        /\ UNCHANGED <<base, edited>>
    /\ UNCHANGED <<clock, remote, ver, nLaunch, nEdit, nRace, nUp, gMeta, gArc>>

\* a spawn that leaves the child running and goes straight on to the upload
SpawnDetached(h) ==
    /\ UNCHANGED <<cfgvars, callvars>>
    /\ pc[h] = "spawn"
    /\ pc' = [pc EXCEPT ![h] = "upload"]
    /\ Logged(h, <<"spawn">>)
    /\ UNCHANGED <<clock, fs, remote, ver, sess, result, nLaunch, nEdit, nRace, nUp,
                   gMeta, gArc, base, edited>>

\* run: spawn the child
Spawn(h) ==
    /\ UNCHANGED <<cfgvars, callvars>>
    /\ pc[h] = "spawn"
    /\ pc' = [pc EXCEPT ![h] = "running"]
    /\ Logged(h, <<"spawn">>)
    /\ UNCHANGED <<clock, fs, remote, ver, sess, result, nLaunch, nEdit, nRace, nUp,
                   gMeta, gArc, base, edited>>

\* the exit step of a tool that uploads only after a child that succeeded
ChildExitZeroOnly(h, status) ==
    /\ UNCHANGED <<cfgvars, callvars>>
    /\ pc[h] = "running"
    /\ Logged(h, <<"wait">>)
    /\ IF status = 0 /\ (sess[h].dry_run \/ ~sess[h].no_upload)
       THEN /\ pc' = [pc EXCEPT ![h] = "upload"]
            /\ sess' = [sess EXCEPT ![h].dirty = FALSE, ![h].exit_status = status]
            /\ UNCHANGED result
       ELSE Finish(h, "ok")
    /\ UNCHANGED <<clock, fs, remote, ver, nLaunch, nEdit, nRace, nUp, gMeta, gArc, base, edited>>

\* run: the child exits with some status, which wait().unwrap() drops; upload
\* unless told otherwise
ChildExit(h, status) ==
    /\ UNCHANGED <<cfgvars, callvars>>
    /\ pc[h] = "running"
    /\ Logged(h, <<"wait">>)
    /\ IF sess[h].dry_run \/ ~sess[h].no_upload
       THEN /\ pc' = [pc EXCEPT ![h] = "upload"]
            /\ sess' = [sess EXCEPT ![h].dirty = FALSE, ![h].exit_status = status]
            /\ UNCHANGED result
       ELSE Finish(h, "ok")
    /\ UNCHANGED <<clock, fs, remote, ver, nLaunch, nEdit, nRace, nUp, gMeta, gArc, base, edited>>

\* UploadMeta without the `?` on write_sync_time: a failed side-car write is
\* dropped and the upload goes on to the archive
UploadMetaIgnoringError(h, io_ok, dt) ==
    /\ UNCHANGED <<cfgvars, callvars>>
    /\ pc[h] = "upload"
    /\ Advance(dt)
    /\ LET files == from_manifest(h, fs)
           latest_write == from_sys_info(build_file_table(files, fs, Now(dt)),
                                         Now(dt), h, ver[h])
       IN  /\ nUp' = nUp + 1
           /\ sess' = [sess EXCEPT ![h].files = files, ![h].upId = nUp + 1]
           /\ pc' = [pc EXCEPT ![h] = "upload_archive"]
           /\ IF io_ok
              THEN /\ remote' = backend_write_file(SYNC_TIME_FILE, RonSer(latest_write))
                   /\ gMeta' = [up |-> nUp + 1, host |-> h, base |-> base[h],
                                changed |-> edited[h]]
                   /\ Logged(h, <<"write_sync_time_ok">>)
              ELSE /\ Logged(h, <<"write_sync_time_err">>)
                   /\ UNCHANGED <<remote, gMeta>>
    /\ UNCHANGED <<fs, ver, result, nLaunch, nEdit, nRace, gArc, base, edited>>

\* an upload that waits while another invocation is between its two writes
UploadMetaLocked(h, io_ok, dt) ==
    /\ UNCHANGED <<cfgvars, callvars>>
    /\ pc[h] = "upload"
    /\ \A g \in Hosts \ {h} : pc[g] # "upload_archive"
    /\ Advance(dt)
    /\ LET files == from_manifest(h, fs)
           latest_write == from_sys_info(build_file_table(files, fs, Now(dt)),
                                         Now(dt), h, ver[h])
       IN  /\ nUp' = nUp + 1
           /\ IF io_ok
              THEN /\ sess' = [sess EXCEPT
                                  ![h].files = files, ![h].upId = nUp + 1,
                                  ![h].upHasPrev = backend_exists(SYNC_TIME_FILE),
                                  ![h].upPrev =
                                      IF backend_exists(SYNC_TIME_FILE)
                                      THEN RonDe(backend_read_file(SYNC_TIME_FILE))
                                               .last_write_cinc_version
                                      ELSE NoVersion]
                   /\ remote' = backend_write_file(SYNC_TIME_FILE, RonSer(latest_write))
                   /\ gMeta' = [up |-> nUp + 1, host |-> h, base |-> base[h],
                                changed |-> edited[h]]
                   /\ Logged(h, <<"write_sync_time_ok">>)
                   /\ pc' = [pc EXCEPT ![h] = "upload_archive"]
                   /\ UNCHANGED result
              ELSE /\ Logged(h, <<"write_sync_time_err">>)
                   /\ Finish(h, "err_io")
                   /\ UNCHANGED <<remote, gMeta>>
    /\ UNCHANGED <<fs, ver, nLaunch, nEdit, nRace, gArc, base, edited>>

\* an upload of the files list that was built for the download phase
UploadMetaLaunchList(h, io_ok, dt) ==
    /\ UNCHANGED <<cfgvars, callvars>>
    /\ pc[h] = "upload"
    /\ Advance(dt)
    /\ LET files == sess[h].files
           latest_write == from_sys_info(build_file_table(files, fs, Now(dt)),
                                         Now(dt), h, ver[h])
       IN  /\ nUp' = nUp + 1
           /\ IF io_ok
              THEN /\ sess' = [sess EXCEPT
                                  ![h].files = files, ![h].upId = nUp + 1,
                                  ![h].upHasPrev = backend_exists(SYNC_TIME_FILE),
                                  ![h].upPrev =
                                      IF backend_exists(SYNC_TIME_FILE)
                                      THEN RonDe(backend_read_file(SYNC_TIME_FILE))
                                               .last_write_cinc_version
                                      ELSE NoVersion]
                   /\ remote' = backend_write_file(SYNC_TIME_FILE, RonSer(latest_write))
                   /\ gMeta' = [up |-> nUp + 1, host |-> h, base |-> base[h],
                                changed |-> edited[h]]
                   /\ Logged(h, <<"write_sync_time_ok">>)
                   /\ pc' = [pc EXCEPT ![h] = "upload_archive"]
                   /\ UNCHANGED result
              ELSE /\ Logged(h, <<"write_sync_time_err">>)
                   /\ Finish(h, "err_io")
                   /\ UNCHANGED <<remote, gMeta>>
    /\ UNCHANGED <<fs, ver, nLaunch, nEdit, nRace, gArc, base, edited>>

\* run builds a new sync manager; SyncMgr::upload up to the side-car write
UploadMeta(h, io_ok, dt) ==
    /\ UNCHANGED <<cfgvars, callvars>>
    /\ pc[h] = "upload"
    /\ Advance(dt)
    /\ LET files == from_manifest(h, fs)
           latest_write == from_sys_info(build_file_table(files, fs, Now(dt)),
                                         Now(dt), h, ver[h])
       IN  /\ nUp' = nUp + 1
           /\ IF io_ok
              THEN /\ sess' = [sess EXCEPT
                                  ![h].files = files, ![h].upId = nUp + 1,
                                  ![h].upHasPrev = backend_exists(SYNC_TIME_FILE),
                                  ![h].upPrev =
                                      IF backend_exists(SYNC_TIME_FILE)
                                      THEN RonDe(backend_read_file(SYNC_TIME_FILE))
                                               .last_write_cinc_version
                                      ELSE NoVersion]
                   /\ remote' = backend_write_file(SYNC_TIME_FILE, RonSer(latest_write))
                   /\ gMeta' = [up |-> nUp + 1, host |-> h, base |-> base[h],
                                changed |-> edited[h]]
                   /\ Logged(h, <<"write_sync_time_ok">>)
                   /\ pc' = [pc EXCEPT ![h] = "upload_archive"]
                   /\ UNCHANGED result
              ELSE /\ Logged(h, <<"write_sync_time_err">>)
                   /\ Finish(h, "err_io")
                   /\ UNCHANGED <<remote, gMeta>>
    /\ UNCHANGED <<fs, ver, nLaunch, nEdit, nRace, gArc, base, edited>>

\* SyncMgr::upload from compress_files on
UploadArchive(h, io_ok) ==
    /\ UNCHANGED <<cfgvars, callvars>>
    /\ pc[h] = "upload_archive"
    /\ LET archive == compress_files(sess[h].files, fs)
       IN  IF io_ok
           THEN /\ remote' = backend_write_file(ARCHIVE_NAME, archive)
                /\ gArc' = [up |-> sess[h].upId, host |-> h,
                            snap |-> [f \in Files |-> fs[<<h, f>>]],
                            clean |-> ~sess[h].dirty,
                            over |-> IF gArc.up = 0 THEN NoVersion
                                     ELSE ver[gArc.host]]
                /\ base' = [base EXCEPT ![h] = sess[h].upId]
                /\ edited' = [edited EXCEPT ![h] = DiffFromTar(h, fs, XzDecode(archive))]
                /\ Logged(h, <<"write_archive_ok">>)
                /\ Finish(h, "ok")
           ELSE /\ Logged(h, <<"write_archive_err">>)
                /\ Finish(h, "err_io")
                /\ UNCHANGED <<remote, gArc, base, edited>>
    /\ UNCHANGED <<clock, fs, ver, nLaunch, nEdit, nRace, nUp, gMeta>>

\* ------------------------------------------------------- the environment
\* The tool's process is killed between the two writes of an upload: signals
\* are not intercepted, so the side-car it has written stays on the backend.
\* (A kill earlier in the upload leaves what a launch without upload leaves.)
Kill(h) ==
    /\ UNCHANGED <<cfgvars, callvars>>
    /\ pc[h] = "upload_archive"
    /\ Logged(h, <<"killed">>)
    /\ Finish(h, "killed")
    /\ UNCHANGED <<clock, fs, remote, ver, nLaunch, nEdit, nRace, nUp, gMeta, gArc,
                   base, edited>>

InLaunch(h) == pc[h] \notin {"idle", "done", "running"}

\* The game (while it runs), the user (between launches) or another process
\* (inside a sync phase of the launch) writes or deletes a set of save files.  An edit
\* on a host that is not launching commutes with every step of another host's
\* launch, so it is taken only while no launch is under way.
Edit(h, S, delete, dt) ==
    /\ UNCHANGED <<cfgvars, callvars>>
    /\ nEdit < MaxEdits
    /\ nEdit' = nEdit + 1
    /\ \/ pc[h] \in {"idle", "done"} /\ Active = {} /\ UNCHANGED nRace
       \/ pc[h] = "running" /\ UNCHANGED nRace
       \/ InLaunch(h) /\ nRace < MaxRaces /\ nRace' = nRace + 1
    /\ Advance(dt)
    /\ IF delete
       THEN /\ dt = 0
            /\ \A f \in S : fs[<<h, f>>].ex
            /\ fs' = [p \in DOMAIN fs |-> IF p[1] = h /\ p[2] \in S THEN NoFile ELSE fs[p]]
       ELSE fs' = [p \in DOMAIN fs |->
                      IF p[1] = h /\ p[2] \in S
                      THEN [ex |-> TRUE, c |-> 3 + nEdit, m |-> Now(dt)]
                      ELSE fs[p]]
    /\ edited' = [edited EXCEPT ![h] = edited[h] \cup S]
    /\ sess' = [sess EXCEPT ![h].dirty = sess[h].dirty \/ InLaunch(h)]
    /\ UNCHANGED <<remote, ver, pc, log, result, nLaunch, nUp, gMeta, gArc, base>>

Next ==
    \/ \E h \in Hosts, d \in BOOLEAN, ok \in BOOLEAN : Launch(h, d, ok)
    \/ \E h \in Hosts, ok \in BOOLEAN : ReadSyncTime(h, ok)
    \/ \E h \in Hosts, r \in SyncChoices \cup {"Closed", "Error"} : ConfirmDialog(h, r)
    \/ \E h \in Hosts, ok \in BOOLEAN : Download(h, ok)
    \/ \E h \in Hosts, ok \in BOOLEAN : ReadArchive(h, ok)
    \/ \E h \in Hosts : Spawn(h)
    \/ \E h \in Hosts : ChildExit(h, 0)
    \/ \E h \in Hosts, ok \in BOOLEAN, dt \in 0..1 : UploadMeta(h, ok, dt)
    \/ \E h \in Hosts, ok \in BOOLEAN : UploadArchive(h, ok)
    \/ \E h \in Hosts : Kill(h)
    \/ \E h \in Hosts, S \in (SUBSET Files) \ {{}}, del \in BOOLEAN, dt \in 0..1 :
           Edit(h, S, del, dt)

Spec == Init /\ [][Next]_vars

\* ------------------------------------------- launches over every flag
\* The same launches, each with any combination of the command-line flags and
\* a child that exits with any status.
ExitStatuses == {0, 1}

ArgsNext ==
    \/ \E h \in Hosts, args \in LaunchFlags, ok \in BOOLEAN : LaunchArgs(h, args, ok)
    \/ \E h \in Hosts, ok \in BOOLEAN : ReadSyncTime(h, ok)
    \/ \E h \in Hosts, r \in SyncChoices \cup {"Closed", "Error"} : ConfirmDialog(h, r)
    \/ \E h \in Hosts, ok \in BOOLEAN : Download(h, ok)
    \/ \E h \in Hosts, ok \in BOOLEAN : ReadArchive(h, ok)
    \/ \E h \in Hosts : Spawn(h)
    \/ \E h \in Hosts, status \in ExitStatuses : ChildExit(h, status)
    \/ \E h \in Hosts, ok \in BOOLEAN, dt \in 0..1 : UploadMeta(h, ok, dt)
    \/ \E h \in Hosts, ok \in BOOLEAN : UploadArchive(h, ok)
    \/ \E h \in Hosts : Kill(h)
    \/ \E h \in Hosts, S \in (SUBSET Files) \ {{}}, del \in BOOLEAN, dt \in 0..1 :
           Edit(h, S, del, dt)

SpecArgs == Init /\ [][ArgsNext]_vars

\* ------------------------------------------------- simultaneous launches
\* Two hosts running the same client version, each with its own save files,
\* launch the game against the same backend with nothing to keep their steps
\* apart.
RaceInit ==
    /\ clock = 0
    /\ fs = [p \in Hosts \X Files |-> InitialFiles(p[1], TRUE)]
    /\ remote = [k \in BackendKeys |-> [ex |-> FALSE, bytes |-> NoBytes]]
    /\ ver = [h \in Hosts |-> ClientVersion("A")]
    /\ pc = [h \in Hosts |-> "idle"]
    /\ sess = [h \in Hosts |-> NoSess]
    /\ log = [h \in Hosts |-> <<>>]
    /\ result = [h \in Hosts |-> "none"]
    /\ nLaunch = 0 /\ nEdit = 0 /\ nRace = 0 /\ nUp = 0
    /\ gMeta = [up |-> 0, host |-> "", base |-> 0, changed |-> {}]
    /\ gArc = [up |-> 0, host |-> "", snap |-> [f \in Files |-> NoFile], clean |-> FALSE,
               over |-> NoVersion]
    /\ base = [h \in Hosts |-> 0]
    /\ edited = [h \in Hosts |-> {}]
    /\ ConfigIdle
    /\ CallIdle

RaceLaunch(h) ==
    nLaunch < MaxRaceLaunches /\ LaunchBody(h, PlainFlags(FALSE), TRUE)

RaceNext ==
    \/ \E h \in Hosts : RaceLaunch(h)
    \/ \E h \in Hosts : ReadSyncTime(h, TRUE)
    \/ \E h \in Hosts, r \in SyncChoices : ConfirmDialog(h, r)
    \/ \E h \in Hosts : Download(h, TRUE)
    \/ \E h \in Hosts : ReadArchive(h, TRUE)
    \/ \E h \in Hosts : Spawn(h)
    \/ \E h \in Hosts : ChildExit(h, 0)
    \/ \E h \in Hosts, dt \in 0..1 : UploadMeta(h, TRUE, dt)
    \/ \E h \in Hosts : UploadArchive(h, TRUE)
    \/ \E h \in Hosts, S \in (SUBSET Files) \ {{}}, dt \in 0..1 : Edit(h, S, FALSE, dt)

SpecRace == RaceInit /\ [][RaceNext]_vars

\* -------------------------------------------------- the backends commands
\* One action per invocation of `cinc backends ...`: run reads the config
\* (writing the default one when there is none), connects to the secrets
\* service, which it cannot do without, and carries the command out.
Invoked(op, dry_run, writes, r) ==
    inv' = [op |-> op, dry_run |-> dry_run, writes |-> writes, result |-> r]

ConfigInit ==
    /\ clock = 0
    /\ fs = [p \in Hosts \X Files |-> InitialFiles(p[1], p[1] = "A")]
    /\ remote = [k \in BackendKeys |-> [ex |-> FALSE, bytes |-> NoBytes]]
    /\ ver = [h \in Hosts |-> ClientVersion(h)]
    /\ pc = [h \in Hosts |-> "idle"]
    /\ sess = [h \in Hosts |-> NoSess]
    /\ log = [h \in Hosts |-> <<>>]
    /\ result = [h \in Hosts |-> "none"]
    /\ nLaunch = 0 /\ nEdit = 0 /\ nRace = 0 /\ nUp = 0
    /\ gMeta = [up |-> 0, host |-> "", base |-> 0, changed |-> {}]
    /\ gArc = [up |-> 0, host |-> "", snap |-> [f \in Files |-> NoFile], clean |-> FALSE,
               over |-> NoVersion]
    /\ base = [h \in Hosts |-> 0]
    /\ edited = [h \in Hosts |-> {}]
    /\ cfg_file \in {NoCfgFile, CfgFileOf(DefaultConfig)}
    /\ keyring = {}
    /\ inv = NoInv
    /\ CallIdle

\* set-default without the check that the backend exists
BackendsSetDefaultUnchecked(dry_run, available, name, wr_ok) ==
    /\ LET rd == read_config(cfg_file)
           cfg == rd.cfg
           new_cfg == [cfg EXCEPT !.default_backend = name]
           wr == write_cfg(new_cfg, rd.file, dry_run, wr_ok)
       IN  IF ~available
           THEN /\ Invoked("set-default", dry_run, rd.writes, "panic_no_secrets")
                /\ cfg_file' = rd.file
           ELSE /\ cfg_file' = wr.file
                /\ Invoked("set-default", dry_run, rd.writes \o wr.writes,
                           IF wr.ok THEN "ok" ELSE "err_write")
    /\ UNCHANGED <<syncvars, keyring, callvars>>

\* run, BackendsArgs::Add; id is the fresh Uuid, psk_empty the password typed,
\* yes the answer to "use system secrets API", io_ok whether add_item
\* succeeds and wr_ok whether the config write does
BackendsAdd(dry_run, available, name, ty, psk_empty, yes, set_default, id, io_ok, wr_ok) ==
    /\ LET rd == read_config(cfg_file)
           cfg == rd.cfg
           use_secrets == available /\ yes
           psk == IF psk_empty THEN NoSecret
                  ELSE IF use_secrets THEN [kind |-> "SystemSecret", id |-> id]
                  ELSE [kind |-> "Plain", id |-> 0]
           adds == ty = "WebDav" /\ ~psk_empty /\ use_secrets /\ ~dry_run
           pushed == Append(cfg.backends, [name |-> name, ty |-> ty,
                                           psk |-> IF ty = "WebDav" THEN psk ELSE NoSecret])
           new_cfg == [backends |-> pushed,
                       default_backend |-> IF set_default THEN name
                                           ELSE cfg.default_backend]
           wr == write_cfg(new_cfg, rd.file, dry_run, wr_ok)
       IN  /\ IF ty = "WebDav" /\ ~psk_empty /\ use_secrets
              THEN id \notin keyring \cup used_keyring_ids(cfg)
              ELSE id = 1
           /\ IF ~available
              THEN /\ Invoked("add", dry_run, rd.writes, "panic_no_secrets")
                   /\ cfg_file' = rd.file /\ UNCHANGED keyring
              ELSE IF HasBackend(cfg, name)
              THEN /\ Invoked("add", dry_run, rd.writes, "err_exists")
                   /\ cfg_file' = rd.file /\ UNCHANGED keyring
              ELSE IF adds /\ ~io_ok
              THEN /\ Invoked("add", dry_run, rd.writes, "err_secrets")
                   /\ cfg_file' = rd.file /\ UNCHANGED keyring
              ELSE /\ keyring' = IF adds THEN keyring \cup {id} ELSE keyring
                   /\ cfg_file' = wr.file
                   /\ Invoked("add", dry_run,
                              rd.writes \o (IF adds THEN <<"add_item">> ELSE <<>>)
                                        \o wr.writes,
                              IF wr.ok THEN "ok" ELSE "err_write")
    /\ UNCHANGED <<syncvars, callvars>>

\* run, BackendsArgs::Remove; done are the items garbage_collect deleted,
\* io_ok whether it returned Ok and wr_ok whether the config write succeeds
BackendsRemove(dry_run, available, name, done, io_ok, wr_ok) ==
    /\ LET rd == read_config(cfg_file)
           cfg == rd.cfg
           i == CHOOSE j \in DOMAIN cfg.backends :
                    /\ cfg.backends[j].name = name
                    /\ \A k \in 1..(j - 1) : cfg.backends[k].name # name
           new_cfg == [cfg EXCEPT !.backends = RemoveAt(cfg.backends, i)]
           collects == ~dry_run /\ available
           unused == keyring \ used_keyring_ids(new_cfg)
           gc == garbage_collect(keyring, used_keyring_ids(new_cfg), done, io_ok)
           wr == write_cfg(new_cfg, rd.file, dry_run, wr_ok)
       IN  IF ~available
           THEN /\ done = {}
                /\ Invoked("remove", dry_run, rd.writes, "panic_no_secrets")
                /\ cfg_file' = rd.file /\ UNCHANGED keyring
           ELSE IF cfg.default_backend = name
           THEN /\ done = {}
                /\ Invoked("remove", dry_run, rd.writes, "err_default")
                /\ cfg_file' = rd.file /\ UNCHANGED keyring
           ELSE IF ~HasBackend(cfg, name)
           THEN /\ done = {}
                /\ Invoked("remove", dry_run, rd.writes, "err_missing")
                /\ cfg_file' = rd.file /\ UNCHANGED keyring
           ELSE IF ~collects
           THEN /\ done = {}
                /\ UNCHANGED keyring
                /\ cfg_file' = wr.file
                /\ Invoked("remove", dry_run, rd.writes \o wr.writes, "ok")
           ELSE /\ done \subseteq unused
                /\ io_ok => done = unused
                /\ keyring' = gc.items
                /\ cfg_file' = IF gc.ok THEN wr.file ELSE rd.file
                /\ Invoked("remove", dry_run,
                           rd.writes \o (IF done # {} THEN <<"garbage_collect">> ELSE <<>>)
                                     \o (IF gc.ok THEN wr.writes ELSE <<>>),
                           IF ~gc.ok THEN "err_secrets"
                           ELSE IF wr.ok THEN "ok" ELSE "err_write")
    /\ UNCHANGED <<syncvars, callvars>>

\* run, BackendsArgs::List
BackendsList(dry_run, available) ==
    /\ LET rd == read_config(cfg_file)
       IN  /\ Invoked("list", dry_run, rd.writes,
                      IF available THEN "ok" ELSE "panic_no_secrets")
           /\ cfg_file' = rd.file
    /\ UNCHANGED <<syncvars, keyring, callvars>>

\* run, BackendsArgs::SetDefault
BackendsSetDefault(dry_run, available, name, wr_ok) ==
    /\ LET rd == read_config(cfg_file)
           cfg == rd.cfg
           new_cfg == [cfg EXCEPT !.default_backend = name]
           wr == write_cfg(new_cfg, rd.file, dry_run, wr_ok)
       IN  IF ~available
           THEN /\ Invoked("set-default", dry_run, rd.writes, "panic_no_secrets")
                /\ cfg_file' = rd.file
           ELSE IF ~HasBackend(cfg, name)
           THEN /\ Invoked("set-default", dry_run, rd.writes, "exit_1")
                /\ cfg_file' = rd.file
           ELSE /\ cfg_file' = wr.file
                /\ Invoked("set-default", dry_run, rd.writes \o wr.writes,
                           IF wr.ok THEN "ok" ELSE "err_write")
    /\ UNCHANGED <<syncvars, keyring, callvars>>

ConfigNext ==
    \/ \E dry_run, available, psk_empty, yes, set_default, io_ok, wr_ok \in BOOLEAN,
          name \in BackendNames, ty \in BackendTypes, id \in SecretIds :
           BackendsAdd(dry_run, available, name, ty, psk_empty, yes, set_default, id,
                       io_ok, wr_ok)
    \/ \E dry_run, available, io_ok, wr_ok \in BOOLEAN, name \in BackendNames,
          done \in SUBSET SecretIds :
           BackendsRemove(dry_run, available, name, done, io_ok, wr_ok)
    \/ \E dry_run, available \in BOOLEAN : BackendsList(dry_run, available)
    \/ \E dry_run, available, wr_ok \in BOOLEAN, name \in BackendNames :
           BackendsSetDefault(dry_run, available, name, wr_ok)

SpecConfig == ConfigInit /\ [][ConfigNext]_vars

\* ------------------------------------------------------ the pure functions
\* Each of these specifications draws the arguments of one call from a
\* bounded set and makes the call; nothing is being launched or configured.
SyncIdle ==
    /\ clock = 0
    /\ fs = [p \in Hosts \X Files |-> InitialFiles(p[1], p[1] = "A")]
    /\ remote = [k \in BackendKeys |-> [ex |-> FALSE, bytes |-> NoBytes]]
    /\ ver = [h \in Hosts |-> ClientVersion(h)]
    /\ pc = [h \in Hosts |-> "idle"]
    /\ sess = [h \in Hosts |-> NoSess]
    /\ log = [h \in Hosts |-> <<>>]
    /\ result = [h \in Hosts |-> "none"]
    /\ nLaunch = 0 /\ nEdit = 0 /\ nRace = 0 /\ nUp = 0
    /\ gMeta = [up |-> 0, host |-> "", base |-> 0, changed |-> {}]
    /\ gArc = [up |-> 0, host |-> "", snap |-> [f \in Files |-> NoFile], clean |-> FALSE,
               over |-> NoVersion]
    /\ base = [h \in Hosts |-> 0]
    /\ edited = [h \in Hosts |-> {}]

Called(fn) == input.fn = fn /\ ret # NoRet

TemplateInit ==
    /\ SyncIdle /\ ConfigIdle
    /\ input \in [fn : {"apply_substs"}, self : Templates, info : TemplateInfos]
    /\ ret = NoRet

ApplySubsts ==
    /\ input.fn = "apply_substs" /\ ret = NoRet
    /\ ret' = TemplatePath_apply_substs(input.self, input.info)
    /\ UNCHANGED <<syncvars, cfgvars, input>>

TemplateNext == ApplySubsts

SpecTemplate == TemplateInit /\ [][TemplateNext]_vars

IsName(t) == t # "/"

\* paths: absolute or relative, of up to MaxComponents components, each a
\* name, "." or ".."
PathComponents == {"a", "b", ".", ".."}
RECURSIVE Separated(_)
Separated(comps) ==
    IF Len(comps) <= 1 THEN comps
    ELSE <<comps[1], "/">> \o Separated(Tail(comps))
PathOf(abs, comps) == (IF abs THEN <<"/">> ELSE <<>>) \o Separated(comps)
Paths ==
    {PathOf(abs, comps) :
        abs \in BOOLEAN,
        comps \in UNION {[1..n -> PathComponents] : n \in 0..MaxComponents}}
\* the per-game root of a filesystem backend, and the remote path of a
\* manifest entry
BackendRoots == {PathOf(TRUE, <<"store", "game">>), PathOf(FALSE, <<"cinc-data", "game">>)}
RemoteRoots == {PathOf(FALSE, <<"base_dir", "saves">>), PathOf(FALSE, <<"win_prefix">>)}

PathInit ==
    /\ SyncIdle /\ ConfigIdle
    /\ \/ input \in [fn : {"filename"}, root : BackendRoots, f : Paths]
       \/ input \in [fn : {"join_good"}, root : RemoteRoots, f : Paths]
    /\ ret = NoRet

\* the filesystem backend resolves a path it was handed
Filename ==
    /\ input.fn = "filename" /\ ret = NoRet
    /\ ret' = Ok(filename(input.root, input.f))
    /\ UNCHANGED <<syncvars, cfgvars, input>>

\* from_manifest joins a file's postfix to the entry's remote path
JoinGood ==
    /\ input.fn = "join_good" /\ ret = NoRet
    /\ ret' = Ok(join_good(input.root, input.f))
    /\ UNCHANGED <<syncvars, cfgvars, input>>

PathNext == Filename \/ JoinGood

SpecPath == PathInit /\ [][PathNext]_vars

Range(s) == {s[i] : i \in DOMAIN s}

\* The local disk is the set of its regular files; a directory is what lies
\* above one of them.
IsPrefix(a, b) == Len(a) <= Len(b) /\ SubSeq(b, 1, Len(a)) = a
Under(dir, path) == IsPrefix(dir \o <<"/">>, path)
Path_is_dir(disk, path) == \E f \in disk : Under(path, f)
fs_exists(disk, path) == path \in disk \/ Path_is_dir(disk, path)

\* extract_postfix: child without the base it begins with
extract_postfix(base_path, child) ==
    IF child = base_path THEN <<>> ELSE SubSeq(child, Len(base_path) + 2, Len(child))

\* the files the disk holds, in the order a walk meets them
WalkOrder ==
    <<<<"R", "/", "x">>, <<"R", "/", "x", "/", "a">>, <<"R", "/", "x", "/", "<", "U", ">">>,
      <<"U", "/", "x">>, <<"B", "/", "x">>>>

\* WalkDir::new(root) without the directories: root itself when it is a file,
\* the files under it when it is a directory
WalkDir(disk, root) ==
    SelectSeq(WalkOrder, LAMBDA f : f \in disk /\ (f = root \/ Under(root, f)))

\* the inner loop with every walked file stored under the entry's own remote name
Walked_flat(e, fname, remote_name, disk) ==
    LET walk == WalkDir(disk, fname)
    IN  [k \in DOMAIN walk |->
            LET postfix == extract_postfix(fname, walk[k])
            IN  [local_path |-> walk[k],
                 remote_path |-> remote_name,
                 tags |-> e.tags,
                 template |-> join_good(e.template, postfix)]]

\* the inner loop of from_manifest: a FileInfo for every file of the walk
Walked(e, fname, remote_name, disk) ==
    LET walk == WalkDir(disk, fname)
    IN  [k \in DOMAIN walk |->
            LET postfix == extract_postfix(fname, walk[k])
            IN  [local_path |-> walk[k],
                 remote_path |-> join_good(remote_name, postfix),
                 tags |-> e.tags,
                 template |-> join_good(e.template, postfix)]]

\* SyncMgr::from_manifest over a manifest given in full: an entry is
\* [template, tags, sat], where sat says that its predicates hold. The result
\* is the files list or the first error.
RECURSIVE ManifestLoop(_, _, _, _, _)
ManifestLoop(entries, local_info, remote_info, disk, files) ==
    IF entries = <<>> THEN Ok(files)
    ELSE LET e == entries[1]
             rest == Tail(entries)
             fname == TemplatePath_apply_substs(e.template, local_info)
             remote_name == TemplatePath_apply_substs(e.template, remote_info)
         IN  IF ~e.sat THEN ManifestLoop(rest, local_info, remote_info, disk, files)
             ELSE IF fname.tag # "Ok" THEN fname
             ELSE IF "save" \notin e.tags
             THEN ManifestLoop(rest, local_info, remote_info, disk, files)
             ELSE IF remote_name.tag # "Ok" THEN remote_name
             ELSE IF ~Path_is_dir(disk, fname.out) /\ ~fs_exists(disk, fname.out)
             THEN ManifestLoop(rest, local_info, remote_info, disk, files)
             ELSE ManifestLoop(rest, local_info, remote_info, disk,
                      files \o Walked(e, fname.out, remote_name.out, disk))

SyncMgr_from_manifest(manifest, local_info, remote_info, disk) ==
    ManifestLoop(manifest, local_info, remote_info, disk, <<>>)

\* the remote TemplateInfo of from_steam_game and from_umu_env
RemoteTemplateInfo(store_user_id, install_dir) ==
    [base_dir |-> Some(<<"base_dir">>), root |-> Some(<<"steam_root">>),
     store_user_id |-> store_user_id, install_dir |-> install_dir]

ManifestTemplates ==
    {<<"<", "root", ">", "/", "x">>, <<"<", "root", ">", "/", "x", "/", "a">>,
     <<"<", "storeUserId", ">", "/", "x">>, <<"<", "base", ">", "/", "x">>}
ManifestEntries ==
    [template : ManifestTemplates, tags : {{"save"}, {"config"}, {}}, sat : BOOLEAN]
\* a disk holds no file above another file
Disks ==
    {d \in SUBSET Range(WalkOrder) : \A f, g \in d : ~Under(f, g)}
\* files is a map keyed by template: no template occurs twice
Manifests ==
    {m \in UNION {[1..n -> ManifestEntries] : n \in 0..MaxManifestFiles} :
        \A i, j \in DOMAIN m : m[i].template = m[j].template => i = j}

ManifestInit ==
    /\ SyncIdle /\ ConfigIdle
    /\ input \in [fn : {"from_manifest"}, manifest : Manifests, disk : Disks,
                  local_info : [base_dir : {None, Some(<<"B">>)},
                                root : {None, Some(<<"R">>)},
                                store_user_id : {None, Some(<<"U">>)},
                                install_dir : {Some(<<"G">>)}]]
    /\ ret = NoRet

FromManifest ==
    /\ input.fn = "from_manifest" /\ ret = NoRet
    /\ ret' = SyncMgr_from_manifest(
                  input.manifest, input.local_info,
                  RemoteTemplateInfo(input.local_info.store_user_id,
                                     input.local_info.install_dir),
                  input.disk)
    /\ UNCHANGED <<syncvars, cfgvars, input>>

ManifestNext == FromManifest

SpecManifest == ManifestInit /\ [][ManifestNext]_vars

\* ------------------------------------------------------- LaunchInfo::new
\* A command token is a string in pieces: "AppId=" and what follows it, or a
\* path with its "/" separators.
starts_with_AppId(tok) == tok # <<>> /\ tok[1] = "AppId="

\* Path::file_name: the last component, unless the path ends in ".."
file_name(path) ==
    LET names == SelectSeq(path, IsName)
    IN  IF names = <<>> \/ names[Len(names)] = ".." THEN None
        ELSE Some(names[Len(names)])

\* the absent values of Option<SteamId>, Option<PlatformOpt> and of the
\* Heroic environment variables
NoId == [some |-> FALSE, val |-> 0]
NoPlatform == [some |-> FALSE, val |-> ""]
NoVar == [some |-> FALSE, val |-> ""]
NoEnv == [source |-> NoVar, name |-> NoVar]

\* str::parse::<u32> of the digits the model uses
parse_u32(str) ==
    IF str = "1" THEN Some(1) ELSE IF str = "2" THEN Some(2)
    ELSE IF str = "7" THEN Some(7) ELSE IF str = "8" THEN Some(8) ELSE NoId

\* resolve_platform looking at the first token before the AppId= tokens
resolve_platform_exe_first(platform, command) ==
    IF platform # "Auto" THEN Some(platform)
    ELSE IF command # <<>> /\ file_name(command[1]) \in {Some("umu-run"), Some("wine")}
    THEN Some("Umu")
    ELSE IF \E i \in DOMAIN command : starts_with_AppId(command[i]) THEN Some("Steam")
    ELSE NoPlatform

\* LaunchArgs::resolve_platform
resolve_platform(platform, command) ==
    IF platform # "Auto" THEN Some(platform)
    ELSE IF \E i \in DOMAIN command : starts_with_AppId(command[i]) THEN Some("Steam")
    ELSE IF command # <<>> /\ file_name(command[1]) \in {Some("umu-run"), Some("wine")}
    THEN Some("Umu")
    ELSE NoPlatform

\* the build the predicates are tested on
TargetArch == "64"
TargetOs == "linux"

\* LaunchPredicate::sat under the PlatformInfo of the launch-path fallback
\* (no store, wine): an absent field ("") is satisfied
LaunchPredicate_sat(pred, wine) ==
    /\ pred.bit = "" \/ pred.bit = TargetArch
    /\ pred.os = "" \/ (wine /\ pred.os = "windows") \/ pred.os = TargetOs

\* LaunchConfig::sat: a launch configuration is its predicates
LaunchConfig_sat(config, wine) ==
    \A i \in DOMAIN config : LaunchPredicate_sat(config[i], wine)

NoPred == [bit |-> "", os |-> "", store |-> ""]
Always == <<>>

\* the manifests, in iteration order: steam and gog are store ids (0: none),
\* launch the game's launch keys, each with its launch configurations
GameManifests ==
    <<[name |-> "g1", steam |-> 1, gog |-> 0,
       launch |-> {[path |-> <<"g1.exe">>, when |-> Always]}],
      [name |-> "g2", steam |-> 2, gog |-> 0,
       launch |-> {[path |-> <<"bin", "/", "g2.exe">>, when |-> Always]}],
      [name |-> "g3", steam |-> 0, gog |-> 7, launch |-> {}]>>
NoGame == [name |-> "", steam |-> 0, gog |-> 0, launch |-> {}]

find_in_manifest_by_steam_id(manifests, app_id) ==
    LET at == {i \in DOMAIN manifests : manifests[i].steam = app_id}
    IN  IF at = {} THEN None
        ELSE Some(manifests[CHOOSE i \in at : \A j \in at : i <= j])

\* find_game_from_env_vars: env holds HEROIC_APP_SOURCE and HEROIC_APP_NAME,
\* each set or not; the result is Ok with the game found, if any, or an error
find_game_from_env_vars(manifests, env) ==
    IF ~env.source.some \/ ~env.name.some THEN [ok |-> FALSE, game |-> None]
    ELSE IF env.source.val # "gog" THEN [ok |-> TRUE, game |-> None]
    ELSE IF ~parse_u32(env.name.val).some THEN [ok |-> FALSE, game |-> None]
    ELSE LET at == {i \in DOMAIN manifests :
                        manifests[i].gog # 0 /\ manifests[i].gog = parse_u32(env.name.val).val}
         IN  IF at = {} THEN [ok |-> TRUE, game |-> None]
             ELSE [ok |-> TRUE,
                   game |-> Some(manifests[CHOOSE i \in at : \A j \in at : i <= j])]

\* Path::components: the root, if the path is absolute, and then its names
components(path) ==
    (IF is_absolute(path) THEN <<"/">> ELSE <<>>) \o SelectSeq(path, IsName)

\* how many trailing components two paths share
RECURSIVE CommonTail(_, _)
CommonTail(a, b) ==
    IF a = <<>> \/ b = <<>> \/ a[Len(a)] # b[Len(b)] THEN 0
    ELSE 1 + CommonTail(SubSeq(a, 1, Len(a) - 1), SubSeq(b, 1, Len(b) - 1))

\* the longest match of the game's launch keys whose configurations are all
\* satisfied under wine
MatchLen(game, exe_path) ==
    LET lens == {CommonTail(components(l.path), components(exe_path)) :
                     l \in {k \in game.launch :
                                \A i \in DOMAIN k.when : LaunchConfig_sat(k.when[i], TRUE)}}
                \cup {0}
    IN  CHOOSE n \in lens : \A k \in lens : k <= n

\* the launch-path fallback keeping the last game of the longest match
find_likelist_umu_match_last(manifests, exe_path) ==
    LET best == CHOOSE n \in {MatchLen(manifests[i], exe_path) : i \in DOMAIN manifests} :
                    \A i \in DOMAIN manifests : MatchLen(manifests[i], exe_path) <= n
        at == {i \in DOMAIN manifests : MatchLen(manifests[i], exe_path) = best}
    IN  IF best = 0 THEN None
        ELSE Some(manifests[CHOOSE i \in at : \A j \in at : i >= j])

\* find_likelist_umu_match: the first game with the longest match, if any
\* pattern matches at all
find_likelist_umu_match(manifests, exe_path) ==
    LET best == CHOOSE n \in {MatchLen(manifests[i], exe_path) : i \in DOMAIN manifests} :
                    \A i \in DOMAIN manifests : MatchLen(manifests[i], exe_path) <= n
        at == {i \in DOMAIN manifests : MatchLen(manifests[i], exe_path) = best}
    IN  IF best = 0 THEN None
        ELSE Some(manifests[CHOOSE i \in at : \A j \in at : i <= j])

\* the Umu discovery trying the launch patterns before the environment
find_game_in_manifest_launch_first(info, manifests, env) ==
    IF info.platform = "Steam" THEN find_in_manifest_by_steam_id(manifests, info.app_id)
    ELSE LET r == find_likelist_umu_match(manifests, info.exe_path)
         IN  IF r.some THEN r ELSE find_game_from_env_vars(manifests, env).game

\* PlatformInfo::find_game_in_manifest
find_game_in_manifest(info, manifests, env) ==
    IF info.platform = "Steam" THEN find_in_manifest_by_steam_id(manifests, info.app_id)
    ELSE LET r == find_game_from_env_vars(manifests, env)
         IN  IF r.ok /\ r.game.some THEN r.game
             ELSE find_likelist_umu_match(manifests, info.exe_path)

\* the game selection asking the platform first and the forced id last
select_game_platform_first(manifest_steam_id, info, manifests, env) ==
    LET found == find_game_in_manifest(info, manifests, env)
    IN  IF found.some THEN found
        ELSE IF manifest_steam_id.some
        THEN find_in_manifest_by_steam_id(manifests, manifest_steam_id.val)
        ELSE None

\* LaunchInfo::new, finding the game manifest: the forced steam id first
select_game(manifest_steam_id, info, manifests, env) ==
    LET forced == IF manifest_steam_id.some
                  THEN find_in_manifest_by_steam_id(manifests, manifest_steam_id.val)
                  ELSE None
    IN  IF forced.some THEN forced ELSE find_game_in_manifest(info, manifests, env)

\* what LaunchInfo::new did: the steps it took, the platform it resolved, and
\* the LaunchInfo or the error it ended with
Launched(tag, err, steps, platform, info, game) ==
    [tag |-> tag, err |-> err, steps |-> steps, platform |-> platform,
     info |-> info, game |-> game]
NoPlatformInfo == [platform |-> "", app_id |-> 0, exe_path |-> <<>>]

LaunchInfo_new(largs, manifests, env, backend_ok) ==
    LET platform == resolve_platform(largs.platform, largs.command)
        ids == {i \in DOMAIN largs.command : starts_with_AppId(largs.command[i])}
        tok == largs.command[CHOOSE i \in ids : \A j \in ids : i <= j]
        info == IF platform.val = "Steam"
                THEN [platform |-> "Steam", app_id |-> parse_u32(tok[2]).val, exe_path |-> <<>>]
                ELSE [platform |-> "Umu", app_id |-> 0, exe_path |-> largs.command[2]]
        game == select_game(largs.app_id, info, manifests, env)
    IN  IF ~platform.some
        THEN Launched("Err", "failed to resolve platform", <<"resolve_platform">>,
                      platform, NoPlatformInfo, NoGame)
        ELSE IF platform.val = "Steam" /\ ids = {}
        THEN Launched("Panic", "couldn't find steam id", <<"resolve_platform">>,
                      platform, NoPlatformInfo, NoGame)
        ELSE IF platform.val = "Steam" /\ (Len(tok) # 2 \/ ~parse_u32(tok[2]).some)
        THEN Launched("Panic", "failed to parse app id", <<"resolve_platform">>,
                      platform, NoPlatformInfo, NoGame)
        ELSE IF platform.val = "Umu" /\ Len(largs.command) < 2
        THEN Launched("Err", "expected a command to invoke for umu", <<"resolve_platform">>,
                      platform, NoPlatformInfo, NoGame)
        ELSE IF ~game.some
        THEN Launched("Err", "failed to find game in manifest",
                      <<"resolve_platform", "find_game">>, platform, info, NoGame)
        ELSE IF ~backend_ok
        THEN Launched("Err", "no backends or default backend is invalid",
                      <<"resolve_platform", "find_game", "to_backend">>,
                      platform, info, game.val)
        ELSE Launched("Ok", "", <<"resolve_platform", "find_game", "to_backend">>,
                      platform, info, game.val)

CommandTokens ==
    {<<"AppId=", "1">>, <<"AppId=", "2">>, <<"AppId=", "x">>, <<"umu-run">>,
     <<"/", "usr", "/", "wine">>, <<"wine64">>, <<"bin", "/", "g2.exe">>}
Commands == UNION {[1..n -> CommandTokens] : n \in 0..MaxCommand}
HeroicEnvs ==
    {NoEnv,
     [source |-> Some("gog"), name |-> Some("7")],
     [source |-> Some("gog"), name |-> Some("8")],
     [source |-> Some("gog"), name |-> Some("x")],
     [source |-> Some("gog"), name |-> NoVar],
     [source |-> NoVar, name |-> Some("7")],
     [source |-> Some("epic"), name |-> Some("7")]}

LaunchInfoInit ==
    /\ SyncIdle /\ ConfigIdle
    /\ input \in [fn : {"LaunchInfo_new"},
                  largs : [platform : {"Steam", "Umu", "Auto"}, command : Commands,
                           app_id : {NoId, Some(1), Some(9)}],
                  env : HeroicEnvs, backend_ok : BOOLEAN]
    /\ ret = NoRet

LaunchInfoNew ==
    /\ input.fn = "LaunchInfo_new" /\ ret = NoRet
    /\ ret' = LaunchInfo_new(input.largs, GameManifests, input.env, input.backend_ok)
    /\ UNCHANGED <<syncvars, cfgvars, input>>

LaunchInfoNext == LaunchInfoNew

SpecLaunchInfo == LaunchInfoInit /\ [][LaunchInfoNext]_vars

\* The launch-path fallback, over manifests whose games differ in their
\* launch keys and in the predicates on them.
LaunchPaths ==
    {<<"g.exe">>, <<"bin", "/", "g.exe">>, <<"/", "bin", "/", "g.exe">>, <<"h.exe">>}
LaunchWhens ==
    {Always,
     << <<[NoPred EXCEPT !.os = "windows"]>> >>,
     << <<[NoPred EXCEPT !.os = "mac"]>> >>}
LaunchMaps ==
    {l \in SUBSET [path : LaunchPaths, when : LaunchWhens] :
        /\ Cardinality(l) <= MaxLaunchKeys
        /\ \A a, b \in l : a.path = b.path => a = b}
GameNames == <<"g1", "g2">>
ExePaths ==
    {<<"g.exe">>, <<"/", "bin", "/", "g.exe">>,
     <<"/", "x", "/", "bin", "/", "g.exe">>, <<"k.exe">>}

UmuMatchInit ==
    /\ SyncIdle /\ ConfigIdle
    /\ \E launches \in [1..MaxGames -> LaunchMaps], exe \in ExePaths :
           input = [fn |-> "find_likelist_umu_match",
                    manifests |-> [i \in 1..MaxGames |->
                                      [name |-> GameNames[i], steam |-> 0, gog |-> 0,
                                       launch |-> launches[i]]],
                    largs |-> [platform |-> "Umu", command |-> <<<<"umu-run">>, exe>>,
                               app_id |-> NoId]]
    /\ ret = NoRet

UmuMatch ==
    /\ input.fn = "find_likelist_umu_match" /\ ret = NoRet
    /\ ret' = LaunchInfo_new(input.largs, input.manifests, NoEnv, TRUE)
    /\ UNCHANGED <<syncvars, cfgvars, input>>

UmuMatchNext == UmuMatch

SpecUmuMatch == UmuMatchInit /\ [][UmuMatchNext]_vars

\* ------------------------------------------------------ the WebDAV backend
\* The server is the set of collections it holds, each named by the
\* components of its path; a relative path is taken from the server's root
\* and "." components name nothing.
Collection(path) ==
    <<"/">> \o SelectSeq(path, LAMBDA t : t # "/" /\ t # ".")
ParentCollection(c) == IF Len(c) <= 1 THEN c ELSE SubSeq(c, 1, Len(c) - 1)

\* Path::parent: the path without its last component
parent(path) ==
    LET comps == components(path)
    IN  IF comps = <<>> \/ comps = <<"/">> THEN None
        ELSE IF Len(comps) = 1 THEN Some(<<>>)
        ELSE IF Len(comps) = 2 /\ comps[1] = "/" THEN Some(<<"/">>)
        ELSE Some(SubSeq(path, 1, Len(path) - 2))

RECURSIVE FoldPaths(_, _)
FoldPaths(comps, bs) ==
    IF comps = <<>> THEN bs
    ELSE FoldPaths(Tail(comps),
                   Append(bs, IF bs = <<>> THEN <<Head(comps)>>
                              ELSE join(bs[Len(bs)], <<Head(comps)>>)))

\* calc_mkdir_all_paths
calc_mkdir_all_paths(dir) ==
    LET r == FoldPaths(components(dir), <<>>)
    IN  IF is_absolute(dir) THEN Tail(r) ELSE r

\* what a request sequence did: its outcome, the requests sent and the
\* collections the server holds afterwards
Sent(tag, err, requests, collections) ==
    [tag |-> tag, err |-> err, requests |-> requests, collections |-> collections]

\* mkdir_abs on each path in turn: MKCOL answers 405 for a collection that
\* exists and 409 for one whose parent is missing
RECURSIVE MkdirEach(_, _, _)
MkdirEach(parts, requests, collections) ==
    IF parts = <<>> THEN Sent("Ok", "", requests, collections)
    ELSE LET c == Collection(Head(parts))
             sent == Append(requests, <<"MKCOL", c>>)
         IN  IF c \in collections THEN Sent("Err", "405", sent, collections)
             ELSE IF ParentCollection(c) \notin collections
             THEN Sent("Err", "409", sent, collections)
             ELSE MkdirEach(Tail(parts), sent, collections \cup {c})

\* WebDavStore::mkdir_all
mkdir_all(root, dir, requests, collections) ==
    LET full == join_good(root, dir)
    IN  IF ~is_absolute(full)
        THEN Sent("Panic", "assertion failed: dir.is_absolute()", requests, collections)
        ELSE LET parts == calc_mkdir_all_paths(full)
             IN  MkdirEach(IF parts = <<>> THEN parts ELSE Tail(parts),
                           requests, collections)

\* WebDavStore::write_file
write_file(root, at, collections) ==
    LET dir == parent(at)
        probe == <<"GET", Collection(join(root, dir.val))>>
        made == IF Collection(join(root, dir.val)) \in collections
                THEN Sent("Ok", "", <<probe>>, collections)
                ELSE mkdir_all(root, dir.val, <<probe>>, collections)
        target == Collection(join(root, at))
        put == Append(made.requests, <<"PUT", target>>)
    IN  IF ~dir.some THEN Sent("Panic", "no parent path for file", <<>>, collections)
        ELSE IF made.tag # "Ok" THEN made
        ELSE IF ParentCollection(target) \notin made.collections
        THEN Sent("Panic", "invalidly scoped but we should've checked for that?",
                  put, made.collections)
        ELSE Sent("Ok", "", put, made.collections)

\* the configured roots (the default is "/"), the game names, and the
\* collections a server may hold before the write
WebDavRoots ==
    {<<"/">>, <<"/", "r">>, <<"/", "r", "/", "s">>, <<"r">>}
WebDavGames == {<<"g">>, <<"g", "/", "h">>}
RECURSIVE Ancestors(_)
Ancestors(c) == IF Len(c) <= 1 THEN {c} ELSE {c} \cup Ancestors(ParentCollection(c))
WebDavCollections ==
    UNION {Ancestors(Collection(join(r, g))) : r \in WebDavRoots, g \in WebDavGames}
WebDavServers ==
    {cs \in SUBSET WebDavCollections :
        <<"/">> \in cs /\ \A c \in cs : ParentCollection(c) \in cs}

WebDavInit ==
    /\ SyncIdle /\ ConfigIdle
    /\ input \in [fn : {"write_file"}, root : WebDavRoots, game_name : WebDavGames,
                  at : {<<"archive.tar.xz">>}, collections : WebDavServers]
    /\ ret = NoRet

\* the backend of a game writes a file: its root is the configured root
\* joined with the game name
WriteFile ==
    /\ input.fn = "write_file" /\ ret = NoRet
    /\ ret' = write_file(join(input.root, input.game_name), input.at, input.collections)
    /\ UNCHANGED <<syncvars, cfgvars, input>>

WebDavNext == WriteFile

SpecWebDav == WebDavInit /\ [][WebDavNext]_vars

\* ------------------------------------------------------ the version checks
\* The two compatibility checks of SyncMetadata, applied by a client of any
\* version to a side-car last written by any version.
VersionUniverse == (0..MaxMajor) \X (0..MaxMinor) \X (0..MaxPatch)

VersionInit ==
    /\ clock = 0
    /\ fs = [p \in Hosts \X Files |-> InitialFiles(p[1], p[1] = "A")]
    /\ \E stored \in VersionUniverse :
           remote = [k \in BackendKeys |->
                        IF k = SYNC_TIME_FILE
                        THEN [ex |-> TRUE,
                              bytes |-> RonSer(from_sys_info(NoMeta.file_table, 0, "A", stored))]
                        ELSE [ex |-> FALSE, bytes |-> NoBytes]]
    /\ \E running \in VersionUniverse : ver = [h \in Hosts |-> running]
    /\ pc = [h \in Hosts |-> "idle"]
    /\ sess = [h \in Hosts |-> NoSess]
    /\ log = [h \in Hosts |-> <<>>]
    /\ result = [h \in Hosts |-> "none"]
    /\ nLaunch = 0 /\ nEdit = 0 /\ nRace = 0 /\ nUp = 0
    /\ gMeta = [up |-> 0, host |-> "", base |-> 0, changed |-> {}]
    /\ gArc = [up |-> 0, host |-> "", snap |-> [f \in Files |-> NoFile], clean |-> FALSE,
               over |-> NoVersion]
    /\ base = [h \in Hosts |-> 0]
    /\ edited = [h \in Hosts |-> {}]
    /\ ConfigIdle
    /\ CallIdle

\* h asks whether it may read what the side-car's last writer wrote
CheckReadCompatible(h) ==
    /\ UNCHANGED <<cfgvars, callvars>>
    /\ pc[h] = "idle"
    /\ backend_exists(SYNC_TIME_FILE)
    /\ LET metadata == RonDe(backend_read_file(SYNC_TIME_FILE))
       IN  result' = [result EXCEPT ![h] =
                         IF is_version_read_compatabible(metadata, ver[h])
                         THEN "read_compatible" ELSE "read_incompatible"]
    /\ pc' = [pc EXCEPT ![h] = "done"]
    /\ UNCHANGED <<clock, fs, remote, ver, sess, log, nLaunch, nEdit, nRace, nUp,
                   gMeta, gArc, base, edited>>

\* h asks whether it may write over what the side-car's last writer wrote
CheckWriteCompatible(h) ==
    /\ UNCHANGED <<cfgvars, callvars>>
    /\ pc[h] = "idle"
    /\ backend_exists(SYNC_TIME_FILE)
    /\ LET metadata == RonDe(backend_read_file(SYNC_TIME_FILE))
       IN  result' = [result EXCEPT ![h] =
                         IF is_version_write_compatabible(metadata, ver[h])
                         THEN "write_compatible" ELSE "write_incompatible"]
    /\ pc' = [pc EXCEPT ![h] = "done"]
    /\ UNCHANGED <<clock, fs, remote, ver, sess, log, nLaunch, nEdit, nRace, nUp,
                   gMeta, gArc, base, edited>>

\* SyncMgr::upload as far as the side-car goes: h writes a side-car stamped
\* with the version it runs; sess[h].upPrev keeps the version it wrote over,
\* and the answers the checks gave about the previous side-car are dropped
VersionUpload(h) ==
    /\ UNCHANGED <<cfgvars, callvars>>
    /\ nUp < MaxVersionUploads
    /\ backend_exists(SYNC_TIME_FILE)
    /\ LET prev == RonDe(backend_read_file(SYNC_TIME_FILE)).last_write_cinc_version
           latest_write == from_sys_info(NoMeta.file_table, clock, h, ver[h])
       IN  /\ sess' = [sess EXCEPT ![h].upHasPrev = TRUE, ![h].upPrev = prev]
           /\ remote' = backend_write_file(SYNC_TIME_FILE, RonSer(latest_write))
    /\ nUp' = nUp + 1
    /\ pc' = [g \in Hosts |-> "idle"]
    /\ result' = [g \in Hosts |-> IF g = h THEN "uploaded" ELSE "none"]
    /\ UNCHANGED <<clock, fs, ver, log, nLaunch, nEdit, nRace, gMeta, gArc, base, edited>>

\* another version of the client is installed on every host (curr_crate_ver
\* changes); the processes of the old one are gone
Upgrade(v) ==
    /\ UNCHANGED <<cfgvars, callvars>>
    /\ v # ver["A"]
    /\ ver' = [h \in Hosts |-> v]
    /\ pc' = [h \in Hosts |-> "idle"]
    /\ sess' = [h \in Hosts |-> NoSess]
    /\ result' = [h \in Hosts |-> "none"]
    /\ UNCHANGED <<clock, fs, remote, log, nLaunch, nEdit, nRace, nUp, gMeta, gArc,
                   base, edited>>

VersionNext ==
    \/ \E h \in Hosts : CheckReadCompatible(h)
    \/ \E h \in Hosts : CheckWriteCompatible(h)
    \/ \E h \in Hosts : VersionUpload(h)
    \/ \E v \in VersionUniverse : Upgrade(v)

SpecVersion == VersionInit /\ [][VersionNext]_vars

\* =================================================================== claims
Last(s) == s[Len(s)]
ArchiveWrites == {"write_archive_ok", "write_archive_err"}

\* C1: in every upload the side-car write completes before the archive write
\* is issued, and the archive write is issued only after a side-car write that
\* succeeded: in a launch's log every archive write, finished or failed, comes
\* directly after a successful side-car write, no archive write follows a
\* failed one, and an archive on the backend was preceded there by the
\* side-car of its own upload.
C1_MetaBeforeArchive ==
    /\ \A h \in Hosts : \A i \in DOMAIN log[h] :
           log[h][i] \in ArchiveWrites =>
               /\ i > 1
               /\ log[h][i - 1] = "write_sync_time_ok"
               /\ "write_sync_time_err" \notin Range(log[h])
    /\ \A h \in Hosts :
           pc[h] = "upload_archive" =>
               Last(log[h]) = "write_sync_time_ok" /\ gMeta.up >= sess[h].upId
    /\ gArc.up # 0 => gMeta.up >= gArc.up

C1_Witness ==
    \E h \in Hosts :
        /\ pc[h] = "done" /\ result[h] = "ok"
        /\ Len(log[h]) >= 2
        /\ Last(log[h]) = "write_archive_ok"
        /\ gArc.host = h /\ gMeta.up = gArc.up

\* the local files of h hold what the archive now on the backend was made from
HoldsUploaded(h) ==
    \A f \in Files :
        gArc.snap[f].ex => fs[<<h, f>>].ex /\ fs[<<h, f>>].c = gArc.snap[f].c

\* C2: two hosts hold the same save files after a sync; one of them then
\* changes one save file, leaving the others untouched, and completes an
\* upload; when the other host, unchanged since that sync and with no conflict
\* detected, has run its download phase, its save files hold the uploaded
\* content.
C2_PeerReceivesUpload ==
    \A h \in Hosts :
        ( /\ pc[h] = "spawn" /\ ~sess[h].dry_run
          /\ gArc.up # 0 /\ gArc.host # h /\ gArc.clean /\ gMeta.up = gArc.up
          /\ sess[h].base0 # 0 /\ gMeta.base = sess[h].base0
          /\ Cardinality(gMeta.changed) = 1
          /\ \A f \in gMeta.changed : gArc.snap[f].ex
          /\ sess[h].edited0 = {} /\ ~sess[h].dirty
          /\ sess[h].has_meta /\ sess[h].metaUp = gArc.up
          /\ sess[h].issue.tag = "None" )
        => HoldsUploaded(h)

ListedTimes(h) == {fs[sess[h].files[i].local_path].m : i \in DOMAIN sess[h].files}
SetMax(S) == CHOOSE t \in S : \A u \in S : u <= t

\* C4: are_local_files_newer returns Some exactly when the files list is not
\* empty and the greatest modification time over the list is strictly after
\* the side-car's last_write_timestamp, and None with an empty list or a
\* greatest time at or before the timestamp; in Some, local_time is that
\* greatest time and remote_time the timestamp.  Stated on a launch that has
\* just compared its listed files, none of them changed since, with the
\* side-car: it stands at the conflict dialog exactly when Some was returned.
C4_LocalNewerIffMaxAfterTimestamp ==
    \A h \in Hosts :
        ( /\ pc[h] \in {"confirm", "download"}
          /\ sess[h].has_meta /\ sess[h].choice = "none" /\ ~sess[h].dirty )
        => LET ts == sess[h].meta.last_write_timestamp
               issue == sess[h].issue
               newer == sess[h].files # <<>> /\ SetMax(ListedTimes(h)) > ts
           IN  /\ issue.tag = "Some" <=> newer
               /\ issue.tag = "None" <=> ~newer
               /\ issue.tag = "Some" =>
                      /\ issue.local_time = SetMax(ListedTimes(h))
                      /\ issue.remote_time = ts
               /\ pc[h] = "confirm" <=> issue.tag = "Some"

C4_Witness ==
    \E h \in Hosts :
        /\ pc[h] = "confirm" /\ sess[h].choice = "none" /\ ~sess[h].dirty
        /\ sess[h].issue.tag = "Some"
        /\ Cardinality(ListedTimes(h)) = 2
        /\ sess[h].issue.local_time = SetMax(ListedTimes(h))
        /\ sess[h].issue.local_time > sess[h].issue.remote_time

\* every file-table template of the side-car h read resolves, against h's
\* local info, to an existing local file no older than oldest_modified_time
AllCurrent(h) ==
    LET table == sess[h].meta.file_table
    IN  \A i \in DOMAIN table.entries :
            LET path == apply_substs(table.entries[i].template, LocalInfo(h))
            IN  fs[path].ex /\ fs[path].m >= table.oldest_modified_time

ListedFilesFromArchive(h) ==
    LET table == sess[h].meta.file_table
        tar == decompress_files(backend_read_file(ARCHIVE_NAME))
    IN  \A i \in DOMAIN table.entries : \A j \in DOMAIN tar :
            tar[j].name = table.entries[i].remote_path =>
                LET path == apply_substs(table.entries[i].template, LocalInfo(h))
                IN  fs[path].ex /\ fs[path].c = tar[j].c

\* C6: when the download phase detects a conflict and the user chooses
\* Download, the local files are overwritten from the archive: once the
\* download phase is over, every file the remote file table lists has locally
\* the content stored in the archive, also when every listed file already has
\* a newer local copy.
C6_DownloadChoiceOverwrites ==
    \A h \in Hosts :
        ( /\ pc[h] = "spawn" /\ sess[h].choice = "Download" /\ ~sess[h].dirty
          /\ sess[h].has_meta /\ sess[h].metaUp = gArc.up /\ gMeta.up = gArc.up
          /\ backend_exists(ARCHIVE_NAME) )
        => ListedFilesFromArchive(h)

ExitAnswers == {"confirm_Exit", "confirm_Closed"}

\* C7: when the download phase detects a conflict and the user chooses Exit,
\* or closes the dialog, the launch is aborted cleanly: the invocation ends
\* there with success, having spawned no child and made no upload, no backend
\* write and no change to a local save file.  The log of such a launch is the
\* side-car read and the answer, nothing else, and the step taking the answer
\* leaves the local files and the backend as they were.
C7_ExitAbortsCleanly ==
    /\ [](\A h \in Hosts :
              (\E i \in DOMAIN log[h] : log[h][i] \in ExitAnswers) =>
                  /\ pc[h] = "done" /\ result[h] = "ok"
                  /\ Len(log[h]) = 2 /\ log[h][1] = "read_sync_time"
                  /\ log[h][2] \in ExitAnswers)
    /\ [][\A h \in Hosts :
              (pc[h] = "confirm" /\ pc'[h] # "confirm"
                 /\ Last(log'[h]) \in ExitAnswers) =>
                  /\ fs' = fs /\ remote' = remote
                  /\ pc'[h] = "done" /\ result'[h] = "ok"]_vars

C7_Witness ==
    \E h \in Hosts :
        /\ pc[h] = "done" /\ result[h] = "ok"
        /\ log[h] = <<"read_sync_time", "confirm_Closed">>
        /\ \E f \in Files : fs[<<h, f>>].ex /\ fs[<<h, f>>].m > 0

\* C8: if the remote side-car is present and its last-writer version is not
\* read-compatible with the running version, the download phase fails with an
\* IncompatibleVersion read error before the archive is read and before any
\* local file is written: no launch that read such a side-car gets as far as
\* reading the archive, unpacking it or ending its download phase.
C8_IncompatibleReadFails ==
    \A h \in Hosts :
        ( sess[h].has_meta /\ ~is_version_read_compatabible(sess[h].meta, ver[h]) )
        => /\ pc[h] \notin {"read_archive", "spawn", "running", "upload", "upload_archive"}
           /\ "read_archive" \notin Range(log[h])
           /\ "unpack" \notin Range(log[h])

\* C9: an upload by a client that is an older breaking version than the
\* side-car's last writer fails with an IncompatibleVersion write error and
\* writes neither the side-car nor the archive, so an older client never
\* overwrites an archive written by a newer breaking version: no upload has
\* replaced the side-car, and no archive on the backend has replaced the
\* archive, of a version the uploading client may not write over.
C9_NoWriteOverNewerVersion ==
    /\ \A h \in Hosts :
           (pc[h] = "upload_archive" /\ sess[h].upHasPrev) =>
               check_version_compat_write(ver[h], sess[h].upPrev)
    /\ (gArc.up # 0 /\ gArc.over # NoVersion) =>
           check_version_compat_write(ver[gArc.host], gArc.over)

\* the breaking cohort of a version: the major number, or under major 0 the
\* minor number
Cohort(v) == IF v[1] = 0 THEN <<0, v[2]>> ELSE <<v[1], 0>>
OlderBreaking(a, b) == a[1] < b[1] \/ (a[1] = b[1] /\ Cohort(a)[2] < Cohort(b)[2])
StoredVersion == RonDe(backend_read_file(SYNC_TIME_FILE)).last_write_cinc_version

\* C10: is_version_write_compatabible returns true when the running version
\* is in the same breaking cohort as the side-car's last writer or is a newer
\* breaking version (running 0.3.0 over stored 0.2.2), and false when the
\* running version is an older breaking version than the last writer (running
\* 0.2.2 over stored 0.3.0), whatever the patch numbers.
C10_WriteCompatibleIffNotOlder ==
    \A h \in Hosts :
        result[h] \in {"write_compatible", "write_incompatible"} =>
            (result[h] = "write_compatible" <=> ~OlderBreaking(ver[h], StoredVersion))

\* the side-car on the backend is that of an upload killed before its archive
\* write, and the archive is an earlier upload's
KilledUpload ==
    /\ gArc.up # 0 /\ gMeta.up > gArc.up
    /\ pc[gMeta.host] = "done" /\ result[gMeta.host] = "killed"
    /\ Len(log[gMeta.host]) >= 2
    /\ log[gMeta.host][Len(log[gMeta.host]) - 1] = "write_sync_time_ok"

\* C11: when an upload was killed after its side-car write and before its
\* archive write, the next download that reads the archive fails with the
\* archive-membership error instead of unpacking the stale archive's content:
\* no launch that read the killed upload's side-car and then the archive has
\* unpacked a member of it.
C11_KilledUploadDetected ==
    \A h \in Hosts :
        ( /\ KilledUpload /\ gMeta.changed # {}
          /\ sess[h].has_meta /\ sess[h].metaUp = gMeta.up
          /\ "read_archive" \in Range(log[h]) )
        => "unpack" \notin Range(log[h])

\* C12: for every completed upload the member names of the written tar are
\* exactly the remote_path values of the written file table, also when another
\* process creates or deletes a listed local file between the pass that builds
\* the table and the pass that builds the tar: whenever the side-car and the
\* archive on the backend come from the same upload, the two sets are equal.
C12_TarMatchesFileTable ==
    (gArc.up # 0 /\ gMeta.up = gArc.up) =>
        LET table == RonDe(backend_read_file(SYNC_TIME_FILE)).file_table
            tar == decompress_files(backend_read_file(ARCHIVE_NAME))
        IN  {tar[j].name : j \in DOMAIN tar}
                = {table.entries[i].remote_path : i \in DOMAIN table.entries}

\* the members of the archive on the backend that the file table of the
\* side-car h read does not list
UnlistedMembers(h) ==
    LET table == sess[h].meta.file_table
        tar == decompress_files(backend_read_file(ARCHIVE_NAME))
    IN  {j \in DOMAIN tar :
            \A i \in DOMAIN table.entries : table.entries[i].remote_path # tar[j].name}

\* C13: during download a tar entry whose path is the remote_path of no
\* file-table entry makes the download fail with an error, and that entry is
\* never written locally; an entry is unpacked only to the local path its
\* file-table template resolves to against the local info.  Of every step
\* that reads the archive: if a member is unlisted the launch ends in an
\* error, and every local file the step changes is the resolved path of a
\* listed member and now holds that member's content.
C13_UnlistedEntryFails ==
    [][\A h \in Hosts :
          (pc[h] = "read_archive" /\ pc'[h] # "read_archive") =>
              LET table == sess[h].meta.file_table
                  tar == decompress_files(backend_read_file(ARCHIVE_NAME))
              IN  /\ UnlistedMembers(h) # {} =>
                         /\ pc'[h] = "done"
                         /\ result'[h] \in {"err_membership", "err_io"}
                  /\ \A p \in DOMAIN fs :
                         fs'[p] # fs[p] =>
                             \E i \in DOMAIN table.entries, j \in DOMAIN tar :
                                 /\ tar[j].name = table.entries[i].remote_path
                                 /\ p = apply_substs(table.entries[i].template, LocalInfo(h))
                                 /\ fs'[p].ex /\ fs'[p].c = tar[j].c]_vars

C13_Witness ==
    \E h \in Hosts :
        /\ pc[h] = "done" /\ result[h] = "err_membership"
        /\ Last(log[h]) = "unpack"
        /\ \E f \in Files : ~fs[<<h, f>>].ex
        /\ \E f \in Files : fs[<<h, f>>].ex

\* C14: the download phase is a successful no-op in exactly two recovery
\* situations, an absent side-car (no conflict check, no archive read) and a
\* present side-car with an absent archive; in both it succeeds, changes no
\* local file and writes nothing to the backend, and every other backend
\* failure is returned as an error.  The phase ends at the side-car read only
\* when the side-car is absent, and at the archive's existence check only when
\* the archive is absent, both times leaving local files and backend alone;
\* any other end of these two steps is the launch ending in an error.
C14_OnlyAbsenceIsRecovered ==
    [][\A h \in Hosts :
          /\ (pc[h] = "read_sync_time" /\ pc'[h] = "spawn") =>
                 /\ ~backend_exists(SYNC_TIME_FILE)
                 /\ log'[h] = <<"read_sync_time">>
                 /\ fs' = fs /\ remote' = remote
          /\ (pc[h] = "read_sync_time" /\ pc'[h] = "done") =>
                 result'[h] \in {"err_io", "err_local_io"}
          /\ (pc[h] = "download" /\ pc'[h] = "spawn"
                 /\ Last(log'[h]) = "exists_archive") =>
                 /\ ~backend_exists(ARCHIVE_NAME)
                 /\ "read_archive" \notin Range(log'[h])
                 /\ fs' = fs /\ remote' = remote
          /\ (pc[h] = "download" /\ pc'[h] = "done") =>
                 result'[h] \in {"err_io", "err_local_io"}]_vars

C14_Witness ==
    \E h \in Hosts :
        /\ pc[h] = "spawn" /\ sess[h].has_meta
        /\ Last(log[h]) = "exists_archive"
        /\ backend_exists(SYNC_TIME_FILE) /\ ~backend_exists(ARCHIVE_NAME)

\* h is in a launch that read the side-car of its own last upload, which
\* completed, with no local file of h modified since
OwnUploadUnchanged(h) ==
    /\ ~sess[h].dry_run /\ sess[h].has_meta
    /\ gArc.up # 0 /\ gMeta.up = gArc.up /\ sess[h].metaUp = gArc.up
    /\ gMeta.host = h /\ gArc.host = h /\ gArc.clean
    /\ sess[h].base0 = gArc.up /\ sess[h].edited0 = {} /\ ~sess[h].dirty

\* C15: after a successful upload with no later modification of the local
\* files, needs_download on the side-car read back is false on the uploading
\* host, and download returns without reading the archive and leaves every
\* local file as it was.
C15_NoDownloadAfterOwnUpload ==
    \A h \in Hosts :
        OwnUploadUnchanged(h) =>
            /\ pc[h] = "download" =>
                   rhaid_lawrlwytho(h, sess[h].files, fs, sess[h].meta) = "false"
            /\ pc[h] # "read_archive"
            /\ pc[h] = "spawn" =>
                   /\ "exists_archive" \notin Range(log[h])
                   /\ "read_archive" \notin Range(log[h])
                   /\ \A f \in Files : fs[<<h, f>>] = gArc.snap[f]

C15_Witness ==
    \E h \in Hosts :
        /\ OwnUploadUnchanged(h) /\ pc[h] = "spawn"
        /\ log[h] = <<"read_sync_time">>
        /\ Len(sess[h].meta.file_table.entries) = 2
        /\ sess[h].meta.file_table.oldest_modified_time
               < sess[h].meta.last_write_timestamp

\* C16: a host never conflicts with its own last upload: after a successful
\* upload and with no later modification of its local files,
\* are_local_files_newer on the side-car read back returns None, so the
\* download that follows, with force_overwrite false, meets its no-conflict
\* precondition.
C16_NoConflictWithOwnUpload ==
    \A h \in Hosts :
        (OwnUploadUnchanged(h) /\ pc[h] \in {"confirm", "download"}) =>
            /\ sess[h].issue.tag = "None"
            /\ pc[h] = "download" /\ ~sess[h].force_overwrite
            /\ are_local_files_newer(sess[h].files, fs, sess[h].meta).tag = "None"

C16_Witness ==
    \E h \in Hosts :
        /\ OwnUploadUnchanged(h) /\ pc[h] = "download"
        /\ sess[h].issue.tag = "None"
        /\ Cardinality(ListedTimes(h)) = 2
        /\ SetMax(ListedTimes(h)) = sess[h].meta.last_write_timestamp


\* C17: the upload phase runs after the child exits if and only if neither
\* --debug-no-upload nor --dry-run was passed; in particular, a launch with
\* --dry-run writes neither the side-car nor the archive at any point. Stated
\* over the launches in flight: a launch is in its upload phase only with both
\* flags off, a launch with both flags off that waited for its child is in its
\* upload phase, and the log of a --dry-run launch holds no backend write.
BackendWrites ==
    {"write_sync_time_ok", "write_sync_time_err", "write_archive_ok", "write_archive_err"}
InUpload(h) == pc[h] \in {"upload", "upload_archive"}
C17_UploadIffNoFlags ==
    \A h \in Hosts :
        /\ InUpload(h) => (~sess[h].dry_run /\ ~sess[h].no_upload)
        /\ (InLaunch(h) /\ "wait" \in Range(log[h])
                /\ ~sess[h].dry_run /\ ~sess[h].no_upload) => InUpload(h)
        /\ sess[h].dry_run => Range(log[h]) \cap BackendWrites = {}

\* C19: a launch with --upload-only first shows the explicit confirmation
\* dialog and, once confirmed, skips the download phase entirely: it reads
\* neither the side-car nor the archive, shows no conflict dialog and writes no
\* local file before the child is spawned (and still uploads after the child
\* exits).
DownloadPhase == {"read_sync_time", "confirm", "download", "read_archive"}
DownloadEvents ==
    {"read_sync_time", "exists_archive", "read_archive", "unpack"}
        \cup {"confirm_" \o r : r \in SyncChoices \cup {"Closed", "Error"}}
C19_UploadOnlySkipsDownload ==
    \A h \in Hosts :
        sess[h].no_download =>
            /\ pc[h] \notin DownloadPhase
            /\ Range(log[h]) \cap DownloadEvents = {}
            /\ "spawn" \in Range(log[h]) =>
                   log[h][1] = "show_no_download_confirmation"

\* C20: the child's exit status never suppresses the upload: when a launch
\* without --debug-no-upload and without --dry-run has spawned its child and
\* the wait for it returns, the launch goes on to the upload phase, whatever
\* the exit status, zero or not.
C20_ExitStatusNeverSuppressesUpload ==
    [][\A h \in Hosts :
          (pc[h] = "running" /\ pc'[h] # "running"
               /\ ~sess[h].dry_run /\ ~sess[h].no_upload) =>
              /\ pc'[h] = "upload"
              /\ Last(log'[h]) = "wait"
              /\ sess'[h].exit_status \in ExitStatuses]_vars

\* a launch with neither flag whose child failed has written the side-car
C20_Witness ==
    \E h \in Hosts :
        /\ pc[h] = "upload_archive"
        /\ ~sess[h].dry_run /\ ~sess[h].no_upload
        /\ sess[h].exit_status = 1
        /\ Last(log[h]) = "write_sync_time_ok"

\* C18: with --dry-run no invocation writes the local config file or the
\* keyring: not backends add, backends remove or backends set-default, and
\* not a first run in which no config file exists yet.
C18_DryRunWritesNoConfig ==
    inv.dry_run => inv.writes = <<>>

\* C21: for every pair of versions, prev stored in the side-car and curr
\* running: when curr is write-compatible with prev, then after curr's upload
\* the side-car carries version curr and is read-compatible for curr, along
\* any sequence of such uploads.
LegalWrite(curr, prev) == ~OlderBreaking(curr, prev)
C21_UploaderReadsBackItsWrite ==
    \A h \in Hosts :
        (result[h] = "uploaded" /\ LegalWrite(ver[h], sess[h].upPrev)
             /\ RonDe(backend_read_file(SYNC_TIME_FILE)).last_write_hostname = h) =>
            /\ StoredVersion = ver[h]
            /\ is_version_read_compatabible(RonDe(backend_read_file(SYNC_TIME_FILE)), ver[h])

\* a second upload in a row, by a newer breaking version over the first one
C21_Witness ==
    \E h \in Hosts :
        /\ result[h] = "uploaded" /\ nUp = MaxVersionUploads
        /\ RonDe(backend_read_file(SYNC_TIME_FILE)).last_write_hostname = h
        /\ LegalWrite(ver[h], sess[h].upPrev)
        /\ Cohort(ver[h]) # Cohort(sess[h].upPrev)

\* C22: two versions are read-compatible if and only if their major numbers
\* are equal and, under major 0, their minor numbers are equal too; the
\* relation is symmetric and does not depend on the patch numbers.
ReadRule(a, b) == a[1] = b[1] /\ (a[1] = 0 => a[2] = b[2])
C22_ReadCompatibleRule ==
    \A h \in Hosts :
        result[h] \in {"read_compatible", "read_incompatible"} =>
            LET s == StoredVersion
                r == ver[h]
            IN  /\ (result[h] = "read_compatible") <=> ReadRule(s, r)
                /\ check_version_compat_read(s, r) = check_version_compat_read(r, s)
                /\ \A p, q \in 0..MaxPatch :
                       check_version_compat_read(<<s[1], s[2], p>>, <<r[1], r[2], q>>)
                           = check_version_compat_read(s, r)

\* compatible versions of major 1 that differ in minor and in patch
C22_Witness ==
    \E h \in Hosts :
        /\ result[h] = "read_compatible"
        /\ ver[h][1] = 1 /\ ver[h][2] # StoredVersion[2] /\ ver[h][3] # StoredVersion[3]

\* the resolution the documentation describes: every "<" opens a placeholder
\* that runs to the next ">" after it, the text outside is copied
RECURSIVE Resolve(_, _)
Resolve(str, info) ==
    IF str = <<>> THEN Ok(<<>>)
    ELSE IF str[1] # "<"
    THEN LET rest == Resolve(Tail(str), info)
         IN  IF rest.tag = "Ok" THEN Ok(<<str[1]>> \o rest.out) ELSE rest
    ELSE LET close == find(str, ">", 1)
         IN  IF close = -1 THEN Err("NoClosingDelim")
             ELSE LET repl == do_repl(SubSeq(str, 2, close), info)
                      rest == Resolve(SubSeq(str, close + 2, Len(str)), info)
                  IN  IF repl.tag # "Ok" THEN repl
                      ELSE IF rest.tag = "Ok" THEN Ok(repl.out \o rest.out)
                      ELSE rest

\* C23: when every placeholder of a pattern names a recognized variable that
\* the TemplateInfo holds, apply_substs returns the pattern with each
\* placeholder replaced by its value and the text outside the placeholders
\* unchanged, a ">" outside any placeholder included; a pattern without
\* placeholder comes back unchanged.
C23_SubstsKeepOutsideText ==
    (Called("apply_substs") /\ Resolve(input.self, input.info).tag = "Ok") =>
        /\ ret = Resolve(input.self, input.info)
        /\ "<" \notin Range(input.self) => ret = Ok(input.self)

\* C24: apply_substs fails with a typed error, and returns no partial output,
\* whenever the pattern references something it cannot resolve: UnknownVariable
\* for an unrecognized name, NoClosingDelim for a "<" with no later ">",
\* VariableNotAvailable for a <root>, <storeUserId> or <game> whose field is
\* unset; no absent variable is replaced by empty text.
C24_UnresolvableFailsTyped ==
    (Called("apply_substs") /\ Resolve(input.self, input.info).tag = "Err") =>
        /\ ret = Resolve(input.self, input.info)
        /\ ret.out = <<>>

\* C25: <base> resolves to base_dir whenever base_dir is set; with base_dir
\* unset and both root and install_dir set, to root joined with install_dir;
\* with base_dir unset and root or install_dir unset it fails with
\* VariableNotAvailable.
JustBase == <<"<", "base", ">">>
C25_BaseFallsBackToRootAndGame ==
    (Called("apply_substs") /\ input.self = JustBase) =>
        LET info == input.info
        IN  /\ info.base_dir.some => ret = Ok(info.base_dir.val)
            /\ (~info.base_dir.some /\ info.root.some /\ info.install_dir.some) =>
                   ret = Ok(info.root.val \o <<"/">> \o info.install_dir.val)
            /\ (~info.base_dir.some /\ ~(info.root.some /\ info.install_dir.some)) =>
                   ret \in {Err("VariableNotAvailable <root>"),
                            Err("VariableNotAvailable <game>")}

\* <base> was resolved through root and game although base_dir could be set
\* elsewhere: here all three cases of the rule have been seen
C25_Witness ==
    /\ Called("apply_substs") /\ input.self = JustBase
    /\ ~input.info.base_dir.some /\ input.info.root.some /\ input.info.install_dir.some
    /\ ret = Ok(<<"R", "/", "G">>)

\* C26: when every variable a pattern references is set, apply_substs is
\* deterministic and idempotent: resolving its result again against the same
\* TemplateInfo gives the same string.
C26_SubstsIdempotent ==
    (Called("apply_substs") /\ Resolve(input.self, input.info).tag = "Ok") =>
        /\ ret.tag = "Ok"
        /\ TemplatePath_apply_substs(input.self, input.info) = ret
        /\ TemplatePath_apply_substs(ret.out, input.info) = ret

\* where a path leads: its components with "." dropped and ".." taken
RECURSIVE Walk(_, _, _)
Walk(comps, abs, acc) ==
    IF comps = <<>> THEN acc
    ELSE IF comps[1] = "." THEN Walk(Tail(comps), abs, acc)
    ELSE IF comps[1] = ".."
    THEN IF acc # <<>> /\ acc[Len(acc)] # ".."
         THEN Walk(Tail(comps), abs, SubSeq(acc, 1, Len(acc) - 1))
         ELSE IF abs THEN Walk(Tail(comps), abs, acc)
         ELSE Walk(Tail(comps), abs, Append(acc, ".."))
    ELSE Walk(Tail(comps), abs, Append(acc, comps[1]))
Location(path) ==
    [abs |-> is_absolute(path), comps |-> Walk(SelectSeq(path, IsName), is_absolute(path), <<>>)]
LiesUnder(path, root) ==
    LET l == Location(path)
        r == Location(root)
    IN  /\ l.abs = r.abs
        /\ Len(r.comps) <= Len(l.comps)
        /\ SubSeq(l.comps, 1, Len(r.comps)) = r.comps

C28_UntaggedEntryHasNoEffect ==
    Called("from_manifest") =>
        \A i \in DOMAIN input.manifest :
            "save" \notin input.manifest[i].tags =>
                ret = SyncMgr_from_manifest(
                          RemoveAt(input.manifest, i), input.local_info,
                          RemoteTemplateInfo(input.local_info.store_user_id,
                                             input.local_info.install_dir),
                          input.disk)

\* C29: resolve_platform returns the forced platform when one is given; with
\* auto it returns Steam if any command token starts with AppId= (even when
\* the first token is umu-run or wine), otherwise Umu if the basename of the
\* first token is exactly umu-run or wine, otherwise nothing, and then the
\* launch fails before any backend access.
HasAppId(command) == \E i \in DOMAIN command : command[i][1] = "AppId="
FirstBasename(command) ==
    IF command = <<>> THEN "" ELSE command[1][Len(command[1])]
C29_PlatformResolution ==
    Called("LaunchInfo_new") =>
        LET largs == input.largs
        IN  /\ largs.platform # "Auto" => ret.platform = Some(largs.platform)
            /\ (largs.platform = "Auto" /\ HasAppId(largs.command)) =>
                   ret.platform = Some("Steam")
            /\ (largs.platform = "Auto" /\ ~HasAppId(largs.command)
                    /\ FirstBasename(largs.command) \in {"umu-run", "wine"}) =>
                   ret.platform = Some("Umu")
            /\ (largs.platform = "Auto" /\ ~HasAppId(largs.command)
                    /\ FirstBasename(largs.command) \notin {"umu-run", "wine"}) =>
                   /\ ret.platform = NoPlatform
                   /\ ret.tag = "Err" /\ ret.err = "failed to resolve platform"
                   /\ "to_backend" \notin Range(ret.steps)

\* wine run with an AppId= token resolves to Steam
C29_Witness ==
    /\ Called("LaunchInfo_new") /\ input.largs.platform = "Auto"
    /\ Len(input.largs.command) >= 2
    /\ FirstBasename(input.largs.command) = "wine"
    /\ HasAppId(input.largs.command)
    /\ ret.platform = Some("Steam") /\ ret.tag = "Ok"

\* C30: when the user forces a Steam app id that some manifest entry has, that
\* entry is the selected game on either platform, whatever the environment
\* variables and the launch patterns say; on Steam the forced id serves the
\* manifest lookup only, and the app id parsed from the command line is the
\* one kept to locate the Steam installation. (The launches looked at are
\* those that got as far as the manifest lookup.)
ForcedEntry ==
    {i \in DOMAIN GameManifests :
        input.largs.app_id.some /\ GameManifests[i].steam = input.largs.app_id.val}
C30_ForcedSteamIdSelectsGame ==
    (Called("LaunchInfo_new") /\ ForcedEntry # {} /\ "find_game" \in Range(ret.steps)) =>
        /\ ret.err # "failed to find game in manifest"
        /\ \E i \in ForcedEntry : ret.game = GameManifests[i]
        /\ ret.platform = Some("Steam") =>
               /\ \E i \in DOMAIN input.largs.command :
                      /\ input.largs.command[i][1] = "AppId="
                      /\ Some(ret.info.app_id) = parse_u32(input.largs.command[i][2])
                      /\ \A j \in 1..(i - 1) : input.largs.command[j][1] # "AppId="

\* on Umu with the Heroic variables pointing at another game, and on Steam
\* with another app id on the command line, the forced id's game is selected
C30_Witness ==
    /\ Called("LaunchInfo_new") /\ ret.tag = "Ok"
    /\ input.largs.app_id = Some(1) /\ ret.game.name = "g1"
    /\ \/ /\ ret.platform = Some("Umu")
          /\ find_game_in_manifest(ret.info, GameManifests, input.env).some
          /\ find_game_in_manifest(ret.info, GameManifests, input.env).val.name # "g1"
       \/ /\ ret.platform = Some("Steam") /\ ret.info.app_id = 2

\* C31: on the Umu platform with no forced id, when HEROIC_APP_SOURCE is gog
\* and HEROIC_APP_NAME parses as a number that is some manifest entry's gog
\* id, that entry is selected whatever the launch patterns match; the launch
\* patterns decide only when the environment yields no game (a variable
\* missing, source not gog, name not numeric, no entry with that gog id).
GogEntry ==
    {i \in DOMAIN GameManifests :
        /\ input.env.source = Some("gog") /\ input.env.name.some
        /\ parse_u32(input.env.name.val).some
        /\ GameManifests[i].gog = parse_u32(input.env.name.val).val}
UmuDiscovery ==
    /\ Called("LaunchInfo_new") /\ input.largs.app_id = NoId
    /\ ret.platform = Some("Umu") /\ "find_game" \in Range(ret.steps)
C31_HeroicEnvBeforeLaunchPatterns ==
    UmuDiscovery =>
        LET byLaunch == find_likelist_umu_match(GameManifests, ret.info.exe_path)
        IN  /\ GogEntry # {} => \E i \in GogEntry : ret.game = GameManifests[i]
            /\ GogEntry = {} =>
                   IF byLaunch.some THEN ret.game = byLaunch.val
                   ELSE ret.err = "failed to find game in manifest"

\* the environment names g3 while the executable matches g2's launch key
C31_Witness ==
    /\ UmuDiscovery /\ GogEntry # {} /\ ret.tag = "Ok" /\ ret.game.name = "g3"
    /\ find_likelist_umu_match(GameManifests, ret.info.exe_path).some
    /\ find_likelist_umu_match(GameManifests, ret.info.exe_path).val.name = "g2"

\* C32: the launch-path fallback selects a game having a launch key, with all
\* predicates satisfied under wine, whose number of trailing path components
\* shared with the executable path is maximal over all such keys of all games
\* and at least 1; of the games with that length the first encountered is
\* kept; when no key shares even the last component no game is selected and
\* the launch fails as game-not-in-manifest.
Shared(a, b) ==
    LET m == IF Len(a) < Len(b) THEN Len(a) ELSE Len(b)
    IN  CHOOSE n \in 0..m :
            /\ \A k \in 1..n : a[Len(a) - k + 1] = b[Len(b) - k + 1]
            /\ n = m \/ a[Len(a) - n] # b[Len(b) - n]
PathParts(path) == (IF path[1] = "/" THEN <<"root">> ELSE <<>>) \o SelectSeq(path, IsName)
KeyScores(i) ==
    {Shared(PathParts(l.path), PathParts(input.largs.command[2])) :
        l \in {k \in input.manifests[i].launch :
                  \A c \in DOMAIN k.when : \A q \in DOMAIN k.when[c] :
                      k.when[c][q].os \in {"", "windows", "linux"}
                          /\ k.when[c][q].bit \in {"", "64"}}}
Score(i) == CHOOSE n \in KeyScores(i) \cup {0} : \A k \in KeyScores(i) : k <= n
C32_LongestLaunchKeyFirstGame ==
    Called("find_likelist_umu_match") =>
        IF \E i \in DOMAIN input.manifests : Score(i) >= 1
        THEN /\ ret.tag = "Ok"
             /\ \E i \in DOMAIN input.manifests :
                    /\ ret.game = input.manifests[i]
                    /\ Score(i) >= 1
                    /\ \A j \in DOMAIN input.manifests : Score(j) <= Score(i)
                    /\ \A j \in 1..(i - 1) : Score(j) < Score(i)
        ELSE ret.tag = "Err" /\ ret.err = "failed to find game in manifest"

\* two games match the executable equally well through different keys, the
\* second has a longer key whose predicate fails, and the first game is kept
C32_Witness ==
    /\ Called("find_likelist_umu_match") /\ ret.tag = "Ok"
    /\ Score(1) = 2 /\ Score(2) = 2 /\ ret.game.name = "g1"
    /\ \E l \in input.manifests[2].launch :
           Shared(PathParts(l.path), PathParts(input.largs.command[2])) = 3

\* C33: a WebDAV write whose parent collection does not exist issues MKCOL
\* requests parent before child so that, when the PUT is sent, the file's
\* parent collection and every ancestor of it exist on the server; on a server
\* that answers PUT with 409 exactly when the parent collection is missing,
\* the 409 panic is unreachable for every configured root and game name.
PutSent == \E i \in DOMAIN ret.requests : ret.requests[i][1] = "PUT"
C33_PutFindsItsParent ==
    (Called("write_file") /\ PutSent) =>
        /\ Ancestors(ParentCollection(ret.requests[Len(ret.requests)][2]))
               \subseteq ret.collections
        /\ ret.tag # "Panic"

\* C34: in every launch the phases are strictly ordered: every download-phase
\* backend read and local file write is done before the child is spawned;
\* between the spawn and the child's exit the tool performs no backend
\* operation and touches no save file (the only file changes are the game's);
\* and the upload phase starts only after the child has exited.
Added(h) ==
    IF Len(log'[h]) > Len(log[h]) THEN SubSeq(log'[h], Len(log[h]) + 1, Len(log'[h]))
    ELSE <<>>
UploadEvents == BackendWrites \cup {"killed"}
PhasesInOrder ==
    \A h \in Hosts :
        /\ Range(Added(h)) \cap DownloadEvents # {} => "spawn" \notin Range(log[h])
        /\ "spawn" \in Range(Added(h)) => pc'[h] = "running"
        /\ pc[h] = "running" =>
               /\ (log'[h] # log[h] \/ pc'[h] # pc[h]) => remote' = remote
               /\ (\E f \in Files : fs'[<<h, f>>] # fs[<<h, f>>]) => nEdit' = nEdit + 1
               /\ Added(h) \in {<<>>, <<"wait">>}
               /\ pc'[h] \in {"running", "upload", "done"}
        /\ "wait" \in Range(Added(h)) => pc[h] = "running"
        /\ Range(Added(h)) \cap UploadEvents # {} =>
               /\ "wait" \in Range(log[h])
               /\ pc[h] \in {"upload", "upload_archive"}
        /\ pc'[h] \in {"upload", "upload_archive"} => "wait" \in Range(log'[h])
C34_PhasesStrictlyOrdered == [][PhasesInOrder]_vars

\* a launch that downloaded and unpacked the archive, ran the game and
\* uploaded
C34_Witness ==
    \E h \in Hosts :
        /\ result[h] = "ok"
        /\ \E i, j, k, l \in DOMAIN log[h] :
               /\ i < j /\ j < k /\ k < l
               /\ log[h][i] = "unpack" /\ log[h][j] = "spawn"
               /\ log[h][k] = "wait" /\ log[h][l] = "write_archive_ok"

\* C35: there is no cross-invocation locking: when two uploads of the same
\* client version run against the same backend at the same time, nothing
\* holds one back while the other is between its two writes, so the four
\* writes can interleave and leave the side-car of one upload beside the
\* archive of the other.
C35_NoCrossInvocationLock ==
    \A h \in Hosts : \A g \in Hosts \ {h} :
        (pc[h] = "upload_archive" /\ ver[h] = ver[g]) =>
            /\ pc[g] = "upload" => ENABLED UploadMeta(g, TRUE, 0)
            /\ pc[g] = "upload_archive" => ENABLED UploadArchive(g, TRUE)

\* both uploads are over, and the backend holds the side-car one host wrote
\* and the archive the other wrote
C35_Witness ==
    \E h \in Hosts : \E g \in Hosts \ {h} :
        /\ ver[h] = ver[g]
        /\ result[h] = "ok" /\ result[g] = "ok" /\ pc[h] = "done" /\ pc[g] = "done"
        /\ Range(log[h]) \cap BackendWrites = {"write_sync_time_ok", "write_archive_ok"}
        /\ Range(log[g]) \cap BackendWrites = {"write_sync_time_ok", "write_archive_ok"}
        /\ RonDe(remote[SYNC_TIME_FILE].bytes).last_write_hostname = g
        /\ gMeta.host = g /\ gArc.host = h
        /\ remote[ARCHIVE_NAME].bytes = compress_files(from_manifest(h, fs), fs)
        /\ remote[ARCHIVE_NAME].bytes # compress_files(from_manifest(g, fs), fs)

\* C36: the upload phase uses a files list enumerated after the child has
\* exited, not the list built for the download phase: a save file the game
\* created while it ran, under a save-tagged template, is in the uploaded
\* file table and in the archive, also when it did not exist before the game
\* started.
InTable(f, bytes) ==
    \E i \in DOMAIN RonDe(bytes).file_table.entries :
        RonDe(bytes).file_table.entries[i].template = f
InArchive(f, bytes) ==
    \E i \in DOMAIN XzDecode(bytes) :
        XzDecode(bytes)[i].name = apply_substs(f, RemoteInfo)
UploadsWhatExists ==
    \A h \in Hosts :
        /\ "write_sync_time_ok" \in Range(Added(h)) =>
               /\ sess'[h].files = from_manifest(h, fs)
               /\ \A f \in Files :
                      fs[<<h, f>>].ex <=> InTable(f, remote'[SYNC_TIME_FILE].bytes)
        /\ ("write_archive_ok" \in Range(Added(h)) /\ ~sess[h].dirty) =>
               \A f \in Files :
                   fs[<<h, f>>].ex <=> InArchive(f, remote'[ARCHIVE_NAME].bytes)
C36_UploadListsFilesAfterExit == [][UploadsWhatExists]_vars

\* host B, which had no save file when its launch began and none listed for
\* the download phase, has written the side-car of its upload, and the file
\* the game created is in the file table and in the list about to be packed
C36_Witness ==
    /\ pc["B"] = "upload_archive" /\ ~sess["B"].dry_run
    /\ nRace = 0 /\ nLaunch = 1 /\ sess["B"].edited0 = {} /\ ~sess["B"].dirty
    /\ \E f \in Files :
           /\ f \in edited["B"] /\ fs[<<"B", f>>].ex
           /\ InTable(f, remote[SYNC_TIME_FILE].bytes)
           /\ \E i \in DOMAIN sess["B"].files : sess["B"].files[i].template = f
           /\ InArchive(f, compress_files(sess["B"].files, fs))

\* C37: every FileInfo in the sync manager's files list has a local_path that
\* is not a directory, and its (postfix-extended) template resolves to its
\* local_path against the local TemplateInfo and to its remote_path against
\* the remote one (paths compared by their components), both when the
\* manifest template resolves to a directory that is walked and when it
\* resolves to a single file.
SamePath(a, b) == components(a) = components(b)
ResolvesTo(template, info, path) ==
    /\ TemplatePath_apply_substs(template, info).tag = "Ok"
    /\ SamePath(TemplatePath_apply_substs(template, info).out, path)
C37_TemplateResolvesToPaths ==
    (Called("from_manifest") /\ ret.tag = "Ok") =>
        \A i \in DOMAIN ret.out :
            /\ ~Path_is_dir(input.disk, ret.out[i].local_path)
            /\ ResolvesTo(ret.out[i].template, input.local_info, ret.out[i].local_path)
            /\ ResolvesTo(ret.out[i].template,
                          RemoteTemplateInfo(input.local_info.store_user_id,
                                             input.local_info.install_dir),
                          ret.out[i].remote_path)

\* C38: the files list holds no two entries with the same local_path and no
\* two with the same remote_path, also when two save-tagged templates overlap
\* or resolve to the same local location.
NoTwoAlike(files) ==
    \A i, j \in DOMAIN files :
        i # j => /\ ~SamePath(files[i].local_path, files[j].local_path)
                 /\ ~SamePath(files[i].remote_path, files[j].remote_path)
C38_NoDuplicateEntries ==
    (Called("from_manifest") /\ ret.tag = "Ok") => NoTwoAlike(ret.out)

\* the entries of the manifest that from_manifest walks
SaveEntries(manifest) ==
    {i \in DOMAIN manifest : manifest[i].sat /\ "save" \in manifest[i].tags}
Overlap(a, b) == a = b \/ Under(a, b) \/ Under(b, a)
Disjoint(manifest, info) ==
    \A i, j \in SaveEntries(manifest) :
        i # j => ~Overlap(TemplatePath_apply_substs(manifest[i].template, info).out,
                          TemplatePath_apply_substs(manifest[j].template, info).out)

\* C38, amended: the files list holds no two entries with the same local_path
\* and no two with the same remote_path when the walked templates resolve to
\* locations none of which is equal to or beneath another, locally and remotely.
C38_DisjointTemplatesNoDuplicates ==
    (/\ Called("from_manifest") /\ ret.tag = "Ok"
     /\ Disjoint(input.manifest, input.local_info)
     /\ Disjoint(input.manifest, RemoteTemplateInfo(input.local_info.store_user_id,
                                                    input.local_info.install_dir)))
        => NoTwoAlike(ret.out)

\* a walked directory with two files and a single file of another template
C38_Witness ==
    /\ Called("from_manifest") /\ ret.tag = "Ok"
    /\ Cardinality(SaveEntries(input.manifest)) = 2
    /\ Disjoint(input.manifest, input.local_info)
    /\ Disjoint(input.manifest, RemoteTemplateInfo(input.local_info.store_user_id,
                                                   input.local_info.install_dir))
    /\ Len(ret.out) = 3

\* C39: from a config with unique backend names whose default backend names
\* an existing backend, every backends add, remove and set-default leaves the
\* names unique and the default naming an existing backend, and a rejected
\* operation (duplicate name on add, removing the default or a missing
\* backend, setting a missing backend as default) leaves the config unchanged.
PersistedConfig == read_config(cfg_file).cfg
ValidConfig(cfg) ==
    /\ \A i, j \in DOMAIN cfg.backends :
           cfg.backends[i].name = cfg.backends[j].name => i = j
    /\ HasBackend(cfg, cfg.default_backend)
Rejected == {"err_exists", "err_default", "err_missing", "exit_1"}
ConfigStaysValid ==
    /\ ValidConfig(PersistedConfig) => ValidConfig(PersistedConfig')
    /\ inv'.result \in Rejected => PersistedConfig' = PersistedConfig
C39_BackendsCommandsKeepConfigValid == [][ConfigStaysValid]_vars

\* the first default backend was removed after another one took its place,
\* and a later removal of the new default was rejected
C39_Witness ==
    /\ inv.op = "remove" /\ inv.result = "err_default"
    /\ PersistedConfig.default_backend = "dav"
    /\ ~HasBackend(PersistedConfig, "local-store")

\* C40: after any sequence of backends add and backends remove, also ones
\* that fail part-way, every keyring secret that a backend of the persisted
\* config file refers to exists in the keyring.
C40_PersistedSecretsExist ==
    used_keyring_ids(PersistedConfig) \subseteq keyring

====
